---- MODULE Spec2Model ----
(***************************************************************************)
(* A model of the jason-rag ingestion-and-retrieval pipeline               *)
(* (src/src/backend): the chunker, the source adapters, the vector store   *)
(* wrapper and the ingestion orchestrator.                                 *)
(*                                                                         *)
(* Strings are sequences of one-character strings, so that str.split and   *)
(* ' '.join are computed rather than assumed.                              *)
(***************************************************************************)
EXTENDS Integers, Sequences, FiniteSets, TLC

VARIABLES
    \* ---- TextChunker.chunk_text (chunker.py) ----
    text,          \* the argument of chunk_text
    chunk_size,    \* self.chunk_size
    overlap,       \* self.overlap
    words,         \* local: text.split()
    i,             \* local: the start index of the current window
    chunks,        \* local: the list being built (the return value)
    starts,        \* history: the value of i when each chunk was appended
    cpc,           \* position in chunk_text: "start", "loop", "done"
    \* ---- VectorDatabase and its Qdrant backend (config/database.py) ----
    client,        \* self.client: "None", "open" (a live QdrantClient), "closed"
    collection,    \* the backend's collection: [exists, size, payload_schema]
    points,        \* the collection's points, in the order they were upserted
    next_id,       \* the number of point ids handed out so far
    db_ret,        \* the last VectorDatabase call: what it returned and did
    \* ---- source adapters (ingestion/scrapers) ----
    scrape_call,   \* the last scrape() call: the adapter, its arguments, the origin
    scrape_ret,    \* what that call returned: [raised, docs]
    \* ---- IngestionPipeline (ingestion/main.py) ----
    pc,            \* position in "with IngestionPipeline(...) as p: p.run()"
    run_no,        \* which run of the pipeline this is
    sources,       \* self.sources: the activated sources
    env,           \* the sources whose environment variable is set
    origins,       \* what each source's origin serves
    src_idx,       \* _scrape_content: position in SOURCES.items()
    last_scraped,  \* _scrape_source: last_scraped
    stored_hash,   \* _scrape_source: kwargs["stored_hash"]
    documents,     \* _scrape_content: documents
    chunked_docs,  \* run: chunked_docs
    exc,           \* the exception in flight, "none" if none
    outcome,       \* what the with statement gave its caller
    hist,          \* history of the run: connects, closes, the sources scraped,
                   \* the stages entered, the store as the run found it
    \* ---- the dict objects chunk_documents reads and builds (chunker.py) ----
    heap,          \* the dict objects, by address
    doc_refs,      \* the argument of chunk_documents: addresses of the documents
    chunk_refs,    \* its return value: addresses of the chunked documents
    heap_op,       \* the last thing done to the objects
    \* ---- POST /query and POST /query/stream (api/main.py) ----
    spc,           \* position in query, or in query_stream and its generate()
    request,       \* the QueryRequest: [question, top_k]
    retrieved_docs, \* query_stream: retrieved_docs
    events,        \* the events sent on the response so far, in order
    fragments,     \* the text fragments the LLM produces for this request, in order
    http,          \* the response: "pending", "200", "500", "streaming", "complete",
                   \* "aborted"
    detail,        \* the detail of the HTTPException raised, "" if none
    body,          \* /query: the dict returned as the response body, None if none
    cache,         \* lru_cache of _cached_rag_query: [key, value] entries, the
                   \* least recently used first
    context,       \* build_context: its return value
    api_hist       \* history of the application: requests received, calls of
                   \* query_engine.search and of the answering backend, cache
                   \* hits, the number of stored points when /query last ran,
                   \* the endpoint of the current request

chunkVars == <<text, chunk_size, overlap, words, i, chunks, starts, cpc>>

dbVars == <<client, collection, points, next_id, db_ret>>

scrapeVars == <<scrape_call, scrape_ret>>

pipeVars == <<pc, run_no, sources, env, origins, src_idx, last_scraped, stored_hash,
              documents, chunked_docs, exc, outcome, hist>>

heapVars == <<heap, doc_refs, chunk_refs, heap_op>>

apiVars == <<spc, request, retrieved_docs, events, fragments, http, detail, body,
            cache, context, api_hist>>

vars == <<text, chunk_size, overlap, words, i, chunks, starts, cpc,
          client, collection, points, next_id, db_ret,
          scrape_call, scrape_ret,
          pc, run_no, sources, env, origins, src_idx, last_scraped, stored_hash,
          documents, chunked_docs, exc, outcome, hist,
          heap, doc_refs, chunk_refs, heap_op,
          spc, request, retrieved_docs, events, fragments, http, detail, body,
          cache, context, api_hist>>

-----------------------------------------------------------------------------
(* Bounds *)

MaxTextLen == 7
MaxChunkSize == 3
MaxPoints == 3
MaxDate == 2
MaxBatch == 2
MaxTopK == 2
MaxEntries == 3
PerPage == 2

(* Embedder.embedding_dim *)
EmbeddingDim == 384

Alphabet == {"a", "b", " "}

(* All strings over Alphabet of length at most n *)
Texts(n) == UNION {[1..k -> Alphabet] : k \in 0..n}

-----------------------------------------------------------------------------
(* Python helpers *)

Min(a, b) == IF a < b THEN a ELSE b

(* a slice bound as Python normalises it: a negative bound counts from the *)
(* end, and every bound is clipped to 0..n                                  *)
SliceBound(x, n) == IF x < 0 THEN (IF x + n < 0 THEN 0 ELSE x + n) ELSE Min(x, n)

(* seq[lo:hi], in Python's 0-based half-open convention *)
Slice(seq, lo, hi) == SubSeq(seq, SliceBound(lo, Len(seq)) + 1, SliceBound(hi, Len(seq)))

(* str.split() with no argument: split on runs of whitespace, no empty words *)
RECURSIVE SplitAcc(_, _, _)
SplitAcc(s, cur, acc) ==
    IF s = <<>>
    THEN IF cur = <<>> THEN acc ELSE Append(acc, cur)
    ELSE IF Head(s) = " "
         THEN SplitAcc(Tail(s), <<>>, IF cur = <<>> THEN acc ELSE Append(acc, cur))
         ELSE SplitAcc(Tail(s), Append(cur, Head(s)), acc)

Split(s) == SplitAcc(s, <<>>, <<>>)

(* ' '.join(ws) *)
RECURSIVE Join(_)
Join(ws) ==
    IF ws = <<>> THEN <<>>
    ELSE IF Len(ws) = 1 THEN ws[1]
    ELSE ws[1] \o <<" ">> \o Join(Tail(ws))

(* the concatenation of a sequence of sequences *)
RECURSIVE Flatten(_)
Flatten(ss) == IF ss = <<>> THEN <<>> ELSE Head(ss) \o Flatten(Tail(ss))

-----------------------------------------------------------------------------
(* Values *)

(* Python's None, a str and a datetime, as records so that they compare *)
None == [kind |-> "None"]

Str(v) == [kind |-> "str", v |-> v]

(* a datetime: ts is the instant, aware says whether it carries a tzinfo *)
Datetime(ts, aware) == [kind |-> "datetime", ts |-> ts, aware |-> aware]

(* datetime.isoformat(): the digits, and the UTC offset of an aware value *)
IsoFormat(d) == [digits |-> d.ts, offset |-> IF d.aware THEN "+00:00" ELSE ""]

(* datetime.fromisoformat(): aware exactly when the string has an offset *)
FromIsoFormat(iso) == Datetime(iso.digits, iso.offset # "")

(* the instant the backend's datetime index orders an ISO string by *)
DateKey(iso) == iso.digits

(* SOURCES of ingestion/main.py, in the order the dict is iterated *)
SourceOrder == <<"medium", "github", "resume">>

Sources == {SourceOrder[k] : k \in 1..Len(SourceOrder)}

(* the elements of seq that satisfy Test, in order *)
RECURSIVE SelectSeqBy(_, _)
SelectSeqBy(seq, keep) ==
    IF seq = <<>> THEN <<>>
    ELSE (IF Head(seq) \in keep THEN <<Head(seq)>> ELSE <<>>) \o SelectSeqBy(Tail(seq), keep)

Range(seq) == {seq[k] : k \in 1..Len(seq)}

-----------------------------------------------------------------------------
(* VectorDatabase (config/database.py) over a model of the Qdrant backend *)

NoCall == [op |-> "none", source |-> "", value |-> None, raised |-> "none",
           scrolls |-> 0, index_creates |-> 0]

Call(op, source, value, raised, scrolls, index_creates) ==
    [op |-> op, source |-> source, value |-> value, raised |-> raised,
     scrolls |-> scrolls, index_creates |-> index_creates]

(* the backend without the collection *)
NoCollection == [exists |-> FALSE, size |-> 0, distance |-> "", payload_schema |-> {}]

(* VectorDatabase.__init__: no client; the backend holds no collection *)
DbIdle ==
    /\ client = "None"
    /\ collection = NoCollection
    /\ points = <<>>
    /\ next_id = 0
    /\ db_ret = NoCall

(* _collection_exists *)
CollectionExists == collection.exists

(* _collection_is_empty: client.count(...).count == 0 *)
CollectionIsEmpty == Len(points) = 0

(* a guard that forgets the emptiness test *)
GuardNoEmptyTest == client = "None" \/ ~CollectionExists

(* not self.client or not self._collection_exists() or self._collection_is_empty() *)
Guard == client = "None" \/ ~CollectionExists \/ CollectionIsEmpty

(* a check that never finds the index *)
CheckPayloadIndexExistsNever(field) == FALSE

(* check_payload_index_exists(client, collection_name, field) *)
CheckPayloadIndexExists(field) == field \in collection.payload_schema

(* the scroll filter {"must": [{"key": "source", "match": {"value": source}}]} *)
MatchSource(source) == {p \in Range(points) : p.payload.source = source}

(* the newest-date test with the comparison reversed *)
IsLatestReversed(p, ps) == \A q \in ps : DateKey(p.payload.published_date) <= DateKey(q.payload.published_date)

(* order_by published_date desc, limit 1: p may be the point returned *)
IsLatest(p, ps) == \A q \in ps : DateKey(p.payload.published_date) >= DateKey(q.payload.published_date)

(* _query_latest_document: the values the ordered scan can return *)
QueryLatestDocument(source) ==
    LET ps == MatchSource(source)
    IN  IF ps = {} THEN {None}
        ELSE {FromIsoFormat(p.payload.published_date) : p \in {q \in ps : IsLatest(q, ps)}}

(* payload.get('content_hash') *)
PayloadGetContentHash(p) ==
    IF "content_hash" \in DOMAIN p.payload THEN Str(p.payload.content_hash) ELSE None

(* get_content_hash's scroll has no order_by: the backend returns the      *)
(* matching points in the order of their ids, which are random uuid4       *)
(* values, so the first point may be any of the matching points.           *)
ScrollFirstContentHash(source) ==
    LET ps == MatchSource(source)
    IN  IF ps = {} THEN {None} ELSE {PayloadGetContentHash(p) : p \in ps}

(* a point whose payload says chunk_index 0 whatever the chunk *)
CreatePointFromDocumentNoIndex(doc, id) ==
    [id |-> id,
     vector |-> doc.embedding,
     payload |-> [title |-> doc.title, content |-> doc.content,
                  source |-> doc.source, url |-> doc.url,
                  published_date |-> IsoFormat(doc.published_date),
                  chunk_index |-> 0]]

(* _create_point_from_document; id stands for the fresh str(uuid4()) *)
CreatePointFromDocument(doc, id) ==
    [id |-> id,
     vector |-> doc.embedding,
     payload |->
        LET base == [title |-> doc.title, content |-> doc.content,
                     source |-> doc.source, url |-> doc.url,
                     published_date |-> IsoFormat(doc.published_date),
                     chunk_index |-> doc.chunk_index]
        IN  IF "content_hash" \in DOMAIN doc
            THEN base @@ [content_hash |-> doc.content_hash]
            ELSE base]

(* ids that start again at 1 in every call *)
CreatePointsReusingIds(docs, first) ==
    [k \in 1..Len(docs) |-> CreatePointFromDocument(docs[k], k)]

(* points = [self._create_point_from_document(doc) for doc in documents] *)
CreatePoints(docs, first) ==
    [k \in 1..Len(docs) |-> CreatePointFromDocument(docs[k], first + k)]

(* connect() *)
Connect ==
    /\ client \in {"None", "closed"}
    /\ client' = "open"
    /\ db_ret' = Call("connect", "", None, "none", 0, 0)
    /\ UNCHANGED <<collection, points, next_id>>

(* a setup_database that creates the collection whatever the list says *)
SetupCreatesAlways == TRUE

(* setup_database: self.collection_name not in collection_names *)
SetupCreates == ~CollectionExists

(* create_collection(vectors_config=VectorParams(size=dim, distance=COSINE)) *)
CreateCollection(dim) ==
    [exists |-> TRUE, size |-> dim, distance |-> "Cosine", payload_schema |-> {}]

(* what a setup_database call was given and did *)
SetupCall(dim, raised, creates) ==
    Call("setup_database", "", None, raised, 0, 0)
        @@ [embedding_dim |-> dim, creates |-> creates]

(* setup_database(embedding_dim) *)
SetupDatabase(dim) ==
    /\ client # "closed"
    /\ IF client = "None"
       THEN /\ db_ret' = SetupCall(dim, "AttributeError", 0)
            /\ UNCHANGED collection
       ELSE IF SetupCreates
       THEN /\ db_ret' = SetupCall(dim, "none", 1)
            /\ collection' = CreateCollection(dim)
       ELSE /\ db_ret' = SetupCall(dim, "none", 0)
            /\ UNCHANGED collection
    /\ UNCHANGED <<client, points, next_id>>

(* what client.upsert answers: the collection must exist and every vector  *)
(* must have the collection's size                                         *)
UpsertError(docs) ==
    IF ~CollectionExists THEN "UnexpectedResponse"
    ELSE IF \E k \in 1..Len(docs) : docs[k].embedding # collection.size
         THEN "UnexpectedResponse"
         ELSE "none"

(* an upsert that keeps only the new points *)
UpsertOverwriting(stored, new) == new

(* client.upsert: a point whose id is already stored replaces the stored   *)
(* point, any other point is added                                         *)
RECURSIVE Upsert(_, _)
Upsert(stored, new) ==
    IF new = <<>> THEN stored
    ELSE LET p == Head(new)
             after == IF \E k \in 1..Len(stored) : stored[k].id = p.id
                      THEN [k \in 1..Len(stored) |->
                               IF stored[k].id = p.id THEN p ELSE stored[k]]
                      ELSE Append(stored, p)
         IN  Upsert(after, Tail(new))

(* insert_documents(documents) *)
InsertDocuments(docs) ==
    /\ client # "closed"
    /\ next_id' = next_id + Len(docs)
    /\ LET err == IF client = "None" THEN "AttributeError" ELSE UpsertError(docs)
       IN  /\ db_ret' = Call("insert_documents", "", None, err, 0, 0)
           /\ points' = IF err = "none" THEN Upsert(points, CreatePoints(docs, next_id))
                        ELSE points
    /\ UNCHANGED <<client, collection>>

(* get_last_scraped_date(source) *)
GetLastScrapedDate(source) ==
    /\ client # "closed"
    /\ IF Guard
       THEN /\ db_ret' = Call("get_last_scraped_date", source, None, "none", 0, 0)
            /\ UNCHANGED collection
       ELSE LET missing == ~CheckPayloadIndexExists("published_date")
            IN  /\ collection' = [collection EXCEPT
                                     !.payload_schema = @ \cup {"published_date"}]
                /\ \E v \in QueryLatestDocument(source) :
                      db_ret' = Call("get_last_scraped_date", source, v, "none", 1,
                                     IF missing THEN 1 ELSE 0)
    /\ UNCHANGED <<client, points, next_id>>

(* get_content_hash(source) *)
GetContentHash(source) ==
    /\ client # "closed"
    /\ IF Guard
       THEN db_ret' = Call("get_content_hash", source, None, "none", 0, 0)
       ELSE \E v \in ScrollFirstContentHash(source) :
               db_ret' = Call("get_content_hash", source, v, "none", 1, 0)
    /\ UNCHANGED <<client, collection, points, next_id>>

(* the sets of hits query_points can answer with limit=top_k: the ranking  *)
(* depends on the query vector, so any top_k of the points may be the hits  *)
QueryPoints(top_k) ==
    {h \in SUBSET {points[k].id : k \in 1..Len(points)} :
        Cardinality(h) = Min(top_k, Len(points))}

(* search_similar(query_embedding, top_k) *)
SearchSimilar(top_k) ==
    /\ client # "closed"
    /\ IF client = "None"
       THEN db_ret' = Call("search_similar", "", None, "AttributeError", 0, 0)
       ELSE IF ~CollectionExists
       THEN db_ret' = Call("search_similar", "", None, "UnexpectedResponse", 0, 0)
       ELSE \E h \in QueryPoints(top_k) :
               db_ret' = Call("search_similar", "", [kind |-> "hits", ids |-> h],
                              "none", 0, 0)
    /\ UNCHANGED <<client, collection, points, next_id>>

(* close() *)
Close ==
    /\ client' = IF client = "open" THEN "closed" ELSE client
    /\ db_ret' = Call("close", "", None, "none", 0, 0)
    /\ UNCHANGED <<collection, points, next_id>>

-----------------------------------------------------------------------------
(* Source adapters (ingestion/scrapers) *)

(* a result of scrape(): the exception raised, if any, and the list returned *)
Returned(docs) == [raised |-> "none", docs |-> docs]

Raised(e) == [raised |-> e, docs |-> <<>>]

(* BaseScraper._create_document / GitHubScraper._create_document *)
CreateDocument(source, title, content, url, published_date) ==
    [title |-> title, content |-> content, url |-> url,
     published_date |-> published_date, source |-> source]

(* a date filter that keeps the documents dated exactly the cutoff *)
FilterByDateInclusive(docs, last_scraped_date) ==
    IF last_scraped_date = None THEN docs
    ELSE SelectSeqBy(docs, {d \in Range(docs) : d.published_date.ts >= last_scraped_date.ts})

(* BaseScraper._filter_by_date *)
FilterByDate(docs, last_scraped_date) ==
    IF last_scraped_date = None THEN docs
    ELSE SelectSeqBy(docs, {d \in Range(docs) : d.published_date.ts > last_scraped_date.ts})

(* MediumScraper._parse_entry: the datetime built from                      *)
(* entry.published_parsed is naive; an entry without it makes this raise    *)
MediumParseEntry(entry) ==
    CreateDocument("medium", entry.title, entry.content, entry.title,
                   Datetime(entry.ts, FALSE))

(* MediumScraper._parse_posts: no entry's failure is caught *)
MediumParsePosts(entries) ==
    IF \E k \in 1..Len(entries) : ~entries[k].ok
    THEN Raised("AttributeError")
    ELSE Returned([k \in 1..Len(entries) |-> MediumParseEntry(entries[k])])

(* MediumScraper.scrape; feedparser.parse gives no entries when the feed    *)
(* cannot be fetched                                                       *)
MediumScrape(feed, last_scraped_date) ==
    LET posts == MediumParsePosts(IF feed.reachable THEN feed.entries ELSE <<>>)
    IN  IF posts.raised # "none" THEN posts
        ELSE Returned(FilterByDate(posts.docs, last_scraped_date))

(* GitHubScraper._parse_repository / _parse_profile: _parse_iso_date gives  *)
(* an aware datetime                                                       *)
GitHubParse(item) ==
    CreateDocument("github", item.title, item.content, item.title,
                   Datetime(item.ts, TRUE))

(* GitHubScraper._scrape_profile: a RequestException gives None, a          *)
(* response without the expected keys raises KeyError                      *)
GitHubScrapeProfile(profile) ==
    IF profile.status = "RequestException" THEN Returned(<<>>)
    ELSE IF ~profile.ok THEN Raised("KeyError")
    ELSE Returned(<<GitHubParse(profile)>>)

(* if last_scraped_date and repo_doc['published_date'] < last_scraped_date *)
RepoIsOlder(doc, last_scraped_date) ==
    last_scraped_date # None /\ doc.published_date.ts < last_scraped_date.ts

(* GitHubScraper._scrape_repositories: items are the user's repositories in *)
(* the API's order, served PerPage at a time; the request for page fail_at  *)
(* raises a RequestException. k is the next item, acc is repos.             *)
RECURSIVE GitHubReposFrom(_, _, _, _, _)
GitHubReposFrom(items, k, fail_at, last_scraped_date, acc) ==
    LET page == ((k - 1) \div PerPage) + 1
        firstOfPage == (k - 1) % PerPage = 0
    IN  IF firstOfPage /\ fail_at = page THEN Returned(acc)
        ELSE IF k > Len(items) THEN Returned(acc)
        ELSE IF ~items[k].ok THEN Raised("KeyError")
        ELSE IF RepoIsOlder(GitHubParse(items[k]), last_scraped_date) THEN Returned(acc)
        ELSE GitHubReposFrom(items, k + 1, fail_at, last_scraped_date,
                             Append(acc, GitHubParse(items[k])))

GitHubScrapeRepositories(items, fail_at, last_scraped_date) ==
    GitHubReposFrom(items, 1, fail_at, last_scraped_date, <<>>)

(* GitHubScraper.scrape *)
GitHubScrape(origin, last_scraped_date) ==
    LET prof == GitHubScrapeProfile(origin.profile)
        kept == IF prof.docs # <<>> /\ (last_scraped_date = None
                     \/ prof.docs[1].published_date.ts > last_scraped_date.ts)
                THEN prof.docs ELSE <<>>
        repos == GitHubScrapeRepositories(origin.repos, origin.fail_at, last_scraped_date)
    IN  IF prof.raised # "none" THEN prof
        ELSE IF repos.raised # "none" THEN repos
        ELSE Returned(kept \o repos.docs)

(* ResumeScraper.document_is_new *)
DocumentIsNew(doc, stored) ==
    (IF "content_hash" \in DOMAIN doc THEN Str(doc.content_hash) ELSE None) # stored

(* ResumeScraper._fetch_and_extract: every exception is caught and gives    *)
(* None, as does a PDF without text                                        *)
ResumeFetchAndExtract(origin) ==
    IF origin.status # "ok" THEN <<>>
    ELSE <<CreateDocument("resume", origin.title, origin.content, origin.title,
                          Datetime(origin.ts, TRUE))
           @@ [content_hash |-> origin.content_hash]>>

(* ResumeScraper.scrape(self, last_scraped_date=None): kwargs are the names *)
(* of the keyword arguments of the call                                    *)
ResumeScrape(origin, kwargs) ==
    IF ~(kwargs \subseteq {"last_scraped_date"}) THEN Raised("TypeError")
    ELSE Returned(ResumeFetchAndExtract(origin))

NoScrape == [adapter |-> "none"]

ScrapeIdle ==
    /\ scrape_call = NoScrape
    /\ scrape_ret = Returned(<<>>)

NoHist == [connects |-> 0, closes |-> 0, scraped |-> {}, stages |-> {},
           points_at_start |-> <<>>,
           collection_at_start |-> NoCollection, log |-> <<>>]

(* the history with one more step of the run in its log, in the order the   *)
(* steps are taken; source is "" for a step of the whole run                *)
Logged(h, stage, source) ==
    [h EXCEPT !.log = Append(@, [stage |-> stage, source |-> source])]

(* no pipeline has been constructed *)
PipeIdle ==
    /\ pc = "idle"
    /\ run_no = 0
    /\ sources = {}
    /\ env = {}
    /\ origins = <<>>
    /\ src_idx = 0
    /\ last_scraped = None
    /\ stored_hash = None
    /\ documents = <<>>
    /\ chunked_docs = <<>>
    /\ exc = "none"
    /\ outcome = "pending"
    /\ hist = NoHist

NoApiHist == [requests |-> 0, searches |-> 0, generations |-> 0, hits |-> 0,
              points_at_query |-> 0, endpoint |-> ""]

(* no request to the application *)
ApiIdle ==
    /\ spc = "idle"
    /\ request = [question |-> "", top_k |-> 0]
    /\ retrieved_docs = <<>>
    /\ events = <<>>
    /\ fragments = <<>>
    /\ http = "pending"
    /\ detail = ""
    /\ body = None
    /\ cache = <<>>
    /\ context = <<>>
    /\ api_hist = NoApiHist

NoHeapOp == [op |-> "none"]

(* no dict object yet *)
HeapIdle ==
    /\ heap = <<>>
    /\ doc_refs = <<>>
    /\ chunk_refs = <<>>
    /\ heap_op = NoHeapOp

-----------------------------------------------------------------------------
(* TextChunker.chunk_text *)

(* a step that does not advance *)
StepSizeStuck(size, ov) == size - size

(* a step that forgets the overlap *)
StepSizeNoOverlap(size, ov) == size

(* step_size = self.chunk_size - self.overlap *)
StepSize(size, ov) == size - ov

(* while i < len(words) *)
WhileCond(idx, n) == idx < n

(* a window one word short *)
ChunkWordsShort(ws, idx, size) == Slice(ws, idx, idx + size - 1)

(* chunk_words = words[i:i + self.chunk_size] *)
ChunkWords(ws, idx, size) == Slice(ws, idx, idx + size)

(* a loop without the break: it goes on until the while test fails *)
BreakCondNever(idx, size, n) == FALSE

(* a break that stops one word early *)
BreakCondEarly(idx, size, n) == idx + size + 1 >= n

(* if i + self.chunk_size >= len(words): break *)
BreakCond(idx, size, n) == idx + size >= n

(* The state of the loop after one iteration from (idx, cs, st):            *)
(* the chunk is appended when it is a non-empty string, then the loop       *)
(* either breaks or advances i by step_size.                                *)
ChunkIter(ws, idx, cs, st, size, ov) ==
    LET chunk == Join(ChunkWords(ws, idx, size))
        brk   == BreakCond(idx, size, Len(ws))
    IN  [chunks |-> IF chunk # <<>> THEN Append(cs, chunk) ELSE cs,
         starts |-> IF chunk # <<>> THEN Append(st, idx) ELSE st,
         i      |-> IF brk THEN idx ELSE idx + StepSize(size, ov),
         done   |-> brk]

ChunkTextBegin ==
    /\ cpc = "start"
    /\ words' = Split(text)
    /\ chunks' = <<>>
    /\ starts' = <<>>
    /\ i' = 0
    /\ cpc' = "loop"
    /\ UNCHANGED <<text, chunk_size, overlap>>

ChunkTextIter ==
    /\ cpc = "loop"
    /\ WhileCond(i, Len(words))
    /\ LET r == ChunkIter(words, i, chunks, starts, chunk_size, overlap)
       IN  /\ chunks' = r.chunks
           /\ starts' = r.starts
           /\ i' = r.i
           /\ cpc' = IF r.done THEN "done" ELSE "loop"
    /\ UNCHANGED <<text, chunk_size, overlap, words>>

ChunkTextExit ==
    /\ cpc = "loop"
    /\ ~WhileCond(i, Len(words))
    /\ cpc' = "done"
    /\ UNCHANGED <<text, chunk_size, overlap, words, i, chunks, starts>>

(* The chunker before any call *)
ChunkIdle ==
    /\ text = <<>>
    /\ chunk_size = 1
    /\ overlap = 0
    /\ words = <<>>
    /\ chunks = <<>>
    /\ starts = <<>>
    /\ i = 0
    /\ cpc = "idle"

(* TextChunker(chunk_size, overlap).chunk_text(text), for every text and    *)
(* every configuration with chunk_size > overlap >= 0                       *)
InitChunk ==
    /\ DbIdle
    /\ ScrapeIdle
    /\ PipeIdle
    /\ HeapIdle /\ ApiIdle
    /\ text \in Texts(MaxTextLen)
    /\ chunk_size \in 1..MaxChunkSize
    /\ overlap \in 0..(chunk_size - 1)
    /\ words = <<>>
    /\ chunks = <<>>
    /\ starts = <<>>
    /\ i = 0
    /\ cpc = "start"

NextChunk ==
    \/ ChunkTextBegin /\ UNCHANGED <<dbVars, scrapeVars, pipeVars, heapVars, apiVars>>
    \/ ChunkTextIter /\ UNCHANGED <<dbVars, scrapeVars, pipeVars, heapVars, apiVars>>
    \/ ChunkTextExit /\ UNCHANGED <<dbVars, scrapeVars, pipeVars, heapVars, apiVars>>

SpecChunk == InitChunk /\ [][NextChunk]_vars

(* chunk_text runs to its end once called: the interpreter always takes the *)
(* next step of the one thread                                              *)
SpecChunkFair == InitChunk /\ [][NextChunk]_vars /\ WF_vars(NextChunk)

-----------------------------------------------------------------------------
(* TextChunker(chunk_size, overlap), constructed with any two integers, and *)
(* then chunk_text(text)                                                    *)

MaxLoop == 4

(* __init__ stores chunk_size and overlap as given *)
TextChunkerInit ==
    /\ cpc = "new"
    /\ \E size \in 1..MaxChunkSize, ov \in 0..(MaxChunkSize + 1) :
          /\ chunk_size' = size
          /\ overlap' = ov
    /\ cpc' = "start"
    /\ UNCHANGED <<text, words, i, chunks, starts>>

InitChunker ==
    /\ DbIdle
    /\ ScrapeIdle
    /\ PipeIdle
    /\ HeapIdle /\ ApiIdle
    /\ text \in Texts(MaxTextLen)
    /\ chunk_size = 1
    /\ overlap = 0
    /\ words = <<>>
    /\ chunks = <<>>
    /\ starts = <<>>
    /\ i = 0
    /\ cpc = "new"

(* a loop that never ends is followed for MaxLoop chunks or steps back *)
NextChunker ==
    \/ TextChunkerInit /\ UNCHANGED <<dbVars, scrapeVars, pipeVars, heapVars, apiVars>>
    \/ ChunkTextBegin /\ UNCHANGED <<dbVars, scrapeVars, pipeVars, heapVars, apiVars>>
    \/ /\ Len(chunks) < MaxLoop
       /\ i > -MaxLoop
       /\ ChunkTextIter
       /\ UNCHANGED <<dbVars, scrapeVars, pipeVars, heapVars, apiVars>>
    \/ ChunkTextExit /\ UNCHANGED <<dbVars, scrapeVars, pipeVars, heapVars, apiVars>>

SpecChunker == InitChunker /\ [][NextChunker]_vars

-----------------------------------------------------------------------------
(* The VectorDatabase operations, called in any order on one store *)

Hashes == {"h1", "h2"}

(* an embedded chunk of a Medium post (naive date, no content_hash) or of  *)
(* the resume (aware date, content_hash)                                   *)
DbDoc(source, ts) ==
    [title |-> "t", content |-> <<"a">>, url |-> "u", source |-> source,
     published_date |-> Datetime(ts, source # "medium"), chunk_index |-> 0,
     embedding |-> EmbeddingDim]

DbDocs ==
    {DbDoc("medium", ts) : ts \in 1..MaxDate}
    \cup {DbDoc("resume", ts) @@ [content_hash |-> h] : ts \in 1..MaxDate, h \in Hashes}

(* one insert_documents call stores the chunks of one scrape: the chunks   *)
(* of the resume in one batch carry the same content_hash                  *)
DbBatches ==
    {b \in UNION {[1..n -> DbDocs] : n \in 1..MaxBatch} :
        \A j, k \in DOMAIN b :
            ("content_hash" \in DOMAIN b[j] /\ "content_hash" \in DOMAIN b[k])
                => b[j].content_hash = b[k].content_hash}

(* the dimension of another embedding model *)
OtherDim == EmbeddingDim + 1

InitDb == ChunkIdle /\ DbIdle /\ ScrapeIdle /\ PipeIdle /\ HeapIdle /\ ApiIdle

NextDb ==
    \/ Connect /\ UNCHANGED <<chunkVars, scrapeVars, pipeVars, heapVars, apiVars>>
    \/ \E dim \in {EmbeddingDim, OtherDim} :
          SetupDatabase(dim) /\ UNCHANGED <<chunkVars, scrapeVars, pipeVars, heapVars, apiVars>>
    \/ \E docs \in DbBatches :
          /\ next_id + Len(docs) <= MaxPoints
          /\ InsertDocuments(docs)
          /\ UNCHANGED <<chunkVars, scrapeVars, pipeVars, heapVars, apiVars>>
    \/ \E source \in Sources : GetLastScrapedDate(source) /\ UNCHANGED <<chunkVars, scrapeVars, pipeVars, heapVars, apiVars>>
    \/ \E source \in Sources : GetContentHash(source) /\ UNCHANGED <<chunkVars, scrapeVars, pipeVars, heapVars, apiVars>>
    \/ \E top_k \in 1..MaxTopK : SearchSimilar(top_k) /\ UNCHANGED <<chunkVars, scrapeVars, pipeVars, heapVars, apiVars>>
    \/ Close /\ UNCHANGED <<chunkVars, scrapeVars, pipeVars, heapVars, apiVars>>

SpecDb == InitDb /\ [][NextDb]_vars

-----------------------------------------------------------------------------
(* Vector store claims *)

(* the positions in points of the points of a source *)
PointsOf(source) == {k \in 1..Len(points) : points[k].payload.source = source}

(* the latest instant stored for a source that has points *)
MaxStoredTs(source) ==
    CHOOSE t \in {points[k].payload.published_date.digits : k \in PointsOf(source)} :
        \A k \in PointsOf(source) : points[k].payload.published_date.digits <= t

(* C9: get_last_scraped_date(source) never raises; it returns None without *)
(* a scroll when there is no client, no collection or no point; None when  *)
(* no point has that source; and otherwise the maximum published_date      *)
(* among the points of that source only.                                   *)
C9_LastScrapedDate ==
    db_ret.op = "get_last_scraped_date" =>
        /\ db_ret.raised = "none"
        /\ IF client = "None" \/ ~collection.exists \/ Len(points) = 0
           THEN db_ret.value = None /\ db_ret.scrolls = 0
           ELSE IF PointsOf(db_ret.source) = {}
           THEN db_ret.value = None
           ELSE /\ db_ret.value.kind = "datetime"
                /\ db_ret.value.ts = MaxStoredTs(db_ret.source)
                /\ \E k \in PointsOf(db_ret.source) :
                      points[k].payload.published_date = IsoFormat(db_ret.value)

(* a lookup that found the watermark of a source while a point of another  *)
(* source carries a later date                                             *)
C9_Witness ==
    /\ db_ret.op = "get_last_scraped_date"
    /\ db_ret.value # None
    /\ Cardinality(PointsOf(db_ret.source)) >= 2
    /\ \E k \in 1..Len(points) :
          /\ points[k].payload.source # db_ret.source
          /\ points[k].payload.published_date.digits > db_ret.value.ts

(* C10: get_content_hash(source) returns the content_hash of the most      *)
(* recently inserted point of that source, and None when there is no       *)
(* collection, no point, or no point of that source.                       *)
C10_LatestContentHash ==
    (db_ret.op = "get_content_hash" /\ client = "open") =>
        IF ~collection.exists \/ PointsOf(db_ret.source) = {}
        THEN db_ret.value = None
        ELSE LET last == CHOOSE k \in PointsOf(db_ret.source) :
                             \A j \in PointsOf(db_ret.source) : j <= k
             IN  db_ret.value = PayloadGetContentHash(points[last])


-----------------------------------------------------------------------------
(* Chunker claims *)

(* The words of chunk k, recovered from the returned string *)
WordsOf(k) == Split(chunks[k])

(* The 1-based word positions chunk k covers *)
Covered(k) == (starts[k] + 1)..(starts[k] + Len(WordsOf(k)))

(* Every returned chunk is the slice of words that starts at its start index *)
ChunksAreSlices ==
    \A k \in 1..Len(chunks) :
        WordsOf(k) = SubSeq(words, starts[k] + 1, starts[k] + Len(WordsOf(k)))

(* C1: when chunk_text has returned, for a text with at least one word,    *)
(* the first chunk starts at word 0, the last chunk ends at the final word *)
(* and every word position of the text lies in at least one chunk.         *)
C1_NoWordDropped ==
    (cpc = "done" /\ Len(words) > 0) =>
        /\ Len(chunks) > 0
        /\ ChunksAreSlices
        /\ starts[1] = 0
        /\ starts[Len(chunks)] + Len(WordsOf(Len(chunks))) = Len(words)
        /\ \A p \in 1..Len(words) : \E k \in 1..Len(chunks) : p \in Covered(k)

(* a finished call whose final window is shorter than chunk_size and that  *)
(* cut more than one window                                                *)
C1_Witness ==
    /\ cpc = "done"
    /\ Len(chunks) >= 2
    /\ Len(WordsOf(Len(chunks))) < chunk_size

(* The first n words of every chunk but the last (all chunks when withLast) *)
Heads(n, withLast) ==
    [k \in 1..Len(chunks) |->
        IF k = Len(chunks) /\ ~withLast THEN WordsOf(k) ELSE Slice(WordsOf(k), 0, n)]

LastWordKept ==
    Len(words) > 0 =>
        /\ Len(chunks) > 0
        /\ WordsOf(Len(chunks))[Len(WordsOf(Len(chunks)))] = words[Len(words)]

(* C2 as stated: when chunk_text has returned, the first                   *)
(* step = chunk_size - overlap words of each chunk, the final one          *)
(* included, concatenated in order are the original word sequence, and     *)
(* the last chunk's last word is the text's last word.                     *)
C2_Original ==
    cpc = "done" =>
        /\ Flatten(Heads(chunk_size - overlap, TRUE)) = words
        /\ LastWordKept

(* C2 amended: when chunk_text has returned, the first                     *)
(* step = chunk_size - overlap words of each chunk but the last, followed  *)
(* by all the words of the last chunk, are the original word sequence,     *)
(* and the last chunk's last word is the text's last word.                 *)
C2_Reconstruct ==
    cpc = "done" =>
        /\ Flatten(Heads(chunk_size - overlap, FALSE)) = words
        /\ LastWordKept

(* a finished call with overlapping windows whose last chunk holds more    *)
(* than step words                                                         *)
C2_Witness ==
    /\ cpc = "done"
    /\ Len(chunks) >= 2
    /\ overlap > 0
    /\ Len(WordsOf(Len(chunks))) > chunk_size - overlap

-----------------------------------------------------------------------------
(* The adapters' scrape(), called on any origin with any watermark *)

Word == <<"a">>

(* a feed entry or an API item: ts = 0 stands for one that cannot be parsed *)
Item(k, ts) == [title |-> k, content |-> Word, ok |-> ts # 0, ts |-> ts]

ItemSeqs == UNION {[1..n -> 0..MaxDate] : n \in 0..MaxEntries}

Items(tss) == [k \in 1..Len(tss) |-> Item(k, tss[k])]

(* sort=updated, direction=desc: the dates of the repositories never rise *)
SortedDesc(tss) ==
    \A j, k \in 1..Len(tss) : (j < k /\ tss[j] # 0 /\ tss[k] # 0) => tss[j] >= tss[k]

Feeds ==
    {[reachable |-> r, entries |-> Items(tss)] : r \in BOOLEAN, tss \in ItemSeqs}

Profiles ==
    {[status |-> "RequestException", ok |-> FALSE, title |-> 0, content |-> Word, ts |-> 0]}
    \cup {[status |-> "ok", ok |-> ts # 0, title |-> 0, content |-> Word, ts |-> ts] :
             ts \in 0..MaxDate}

GitHubOrigins ==
    {[profile |-> p, repos |-> Items(tss), fail_at |-> f] :
        p \in Profiles, tss \in {t \in ItemSeqs : SortedDesc(t)}, f \in 0..2}

ResumeOrigins ==
    {[status |-> st, title |-> 0, content |-> Word, ts |-> ts, content_hash |-> h] :
        st \in {"ok", "RequestException", "no text"}, ts \in 1..MaxDate, h \in Hashes}

NaiveWatermarks == {None} \cup {Datetime(ts, FALSE) : ts \in 1..MaxDate}

AwareWatermarks == {None} \cup {Datetime(ts, TRUE) : ts \in 1..MaxDate}

StoredHashes == {None} \cup {Str(h) : h \in Hashes}

CallMediumScrape ==
    \E feed \in Feeds, w \in NaiveWatermarks :
        /\ scrape_call' = [adapter |-> "medium", origin |-> feed, last_scraped_date |-> w]
        /\ scrape_ret' = MediumScrape(feed, w)

CallGitHubScrape ==
    \E origin \in GitHubOrigins, w \in AwareWatermarks :
        /\ scrape_call' = [adapter |-> "github", origin |-> origin, last_scraped_date |-> w]
        /\ scrape_ret' = GitHubScrape(origin, w)

(* scrape(last_scraped_date=w) *)
CallResumeScrape ==
    \E origin \in ResumeOrigins, w \in AwareWatermarks :
        /\ scrape_call' = [adapter |-> "resume", origin |-> origin, last_scraped_date |-> w,
                           kwargs |-> {"last_scraped_date"}, stored_hash |-> None]
        /\ scrape_ret' = ResumeScrape(origin, {"last_scraped_date"})

(* scrape(last_scraped_date=None, stored_hash=h), as _scrape_source calls it *)
CallResumeScrapeWithHash ==
    \E origin \in ResumeOrigins, h \in StoredHashes :
        /\ scrape_call' = [adapter |-> "resume", origin |-> origin, last_scraped_date |-> None,
                           kwargs |-> {"last_scraped_date", "stored_hash"},
                           stored_hash |-> h]
        /\ scrape_ret' = ResumeScrape(origin, {"last_scraped_date", "stored_hash"})

InitScrape == ChunkIdle /\ DbIdle /\ ScrapeIdle /\ PipeIdle /\ HeapIdle /\ ApiIdle

NextScrape ==
    \/ CallMediumScrape /\ UNCHANGED <<chunkVars, dbVars, pipeVars, heapVars, apiVars>>
    \/ CallGitHubScrape /\ UNCHANGED <<chunkVars, dbVars, pipeVars, heapVars, apiVars>>
    \/ CallResumeScrape /\ UNCHANGED <<chunkVars, dbVars, pipeVars, heapVars, apiVars>>
    \/ CallResumeScrapeWithHash /\ UNCHANGED <<chunkVars, dbVars, pipeVars, heapVars, apiVars>>

SpecScrape == InitScrape /\ [][NextScrape]_vars

-----------------------------------------------------------------------------
(* Adapter claims *)

(* C4: every document a date-filter adapter (Medium, GitHub profile and    *)
(* repositories) returns for a watermark W is dated strictly after W, and  *)
(* with no watermark every document fetched is returned.                   *)
C4_StrictlyNewer ==
    (scrape_call.adapter \in {"medium", "github"} /\ scrape_ret.raised = "none") =>
        IF scrape_call.last_scraped_date # None
        THEN \A k \in 1..Len(scrape_ret.docs) :
                scrape_ret.docs[k].published_date.ts > scrape_call.last_scraped_date.ts
        ELSE (scrape_call.adapter = "medium" /\ scrape_call.origin.reachable) =>
                Len(scrape_ret.docs) = Len(scrape_call.origin.entries)

(* C5: the resume adapter called with stored_hash = h returns the fetched  *)
(* document exactly when its content_hash differs from h (None included),  *)
(* and the empty list when the two are equal.                              *)
C5_HashFilter ==
    (scrape_call.adapter = "resume" /\ "stored_hash" \in scrape_call.kwargs
        /\ scrape_call.origin.status = "ok") =>
        /\ scrape_ret.raised = "none"
        /\ IF Str(scrape_call.origin.content_hash) # scrape_call.stored_hash
           THEN /\ Len(scrape_ret.docs) = 1
                /\ scrape_ret.docs[1].content_hash = scrape_call.origin.content_hash
           ELSE scrape_ret.docs = <<>>

(* C8: scrape() of an adapter does not raise on a network or parse failure *)
(* of its origin: it returns the documents of the items it could collect,  *)
(* and the empty list when the origin cannot be reached at all.            *)
C8_NeverRaises ==
    (scrape_call.adapter # "none" /\ (scrape_call.adapter = "resume" =>
                                         "stored_hash" \notin scrape_call.kwargs)) =>
        /\ scrape_ret.raised = "none"
        /\ (scrape_call.adapter = "medium" /\ ~scrape_call.origin.reachable) =>
              scrape_ret.docs = <<>>
        /\ (scrape_call.adapter = "resume" /\ scrape_call.origin.status # "ok") =>
              scrape_ret.docs = <<>>

-----------------------------------------------------------------------------
(* TextChunker.chunk_documents *)

(* TextChunker.__init__: chunk_size=256, overlap=25 *)
DefaultChunkSize == 256

DefaultOverlap == 25

(* chunk_text as a function: the loop run to its end *)
RECURSIVE ChunkLoop(_, _, _, _, _)
ChunkLoop(ws, idx, cs, size, ov) ==
    IF ~WhileCond(idx, Len(ws)) THEN cs
    ELSE LET r == ChunkIter(ws, idx, cs, <<>>, size, ov)
         IN  IF r.done THEN r.chunks ELSE ChunkLoop(ws, r.i, r.chunks, size, ov)

ChunkText(t, size, ov) == ChunkLoop(Split(t), 0, <<>>, size, ov)

(* _create_chunked_document: a deep copy with content and chunk_index set *)
CreateChunkedDocument(doc, chunk_content, chunk_index) ==
    [f \in (DOMAIN doc) \cup {"chunk_index"} |->
        IF f = "content" THEN chunk_content
        ELSE IF f = "chunk_index" THEN chunk_index
        ELSE doc[f]]

(* chunk_documents *)
ChunkDocuments(docs, size, ov) ==
    Flatten([d \in 1..Len(docs) |->
        LET cs == ChunkText(docs[d].content, size, ov)
        IN  [k \in 1..Len(cs) |-> CreateChunkedDocument(docs[d], cs[k], k - 1)]])

(* Embedder._add_embeddings_to_documents: doc['embedding'] = embedding *)
AddEmbeddings(docs) ==
    [k \in 1..Len(docs) |->
        [f \in (DOMAIN docs[k]) \cup {"embedding"} |->
            IF f = "embedding" THEN EmbeddingDim ELSE docs[k][f]]]

-----------------------------------------------------------------------------
(* IngestionPipeline (ingestion/main.py):                                   *)
(*     with IngestionPipeline(sources=...) as pipeline: pipeline.run()      *)

MaxRuns == 2
MaxFeed == 2

(* the source _scrape_content's loop is at *)
Src == SourceOrder[src_idx]

(* scraper_class(): GitHubScraper.__init__(self, username, token=None) has  *)
(* a required parameter; MediumScraper and ResumeScraper read their         *)
(* environment variable and raise ValueError without it                     *)
ScraperInit(source) ==
    IF source = "github" THEN "TypeError"
    ELSE IF source \notin env THEN "ValueError"
    ELSE "none"

(* kwargs = {"last_scraped_date": last_scraped}, plus "stored_hash" for resume *)
Kwargs(source) ==
    IF source = "resume" THEN {"last_scraped_date", "stored_hash"}
    ELSE {"last_scraped_date"}

(* scraper.scrape with kwargs *)
ScraperScrape(source) ==
    CASE source = "medium" -> MediumScrape(origins.medium, last_scraped)
      [] source = "github" -> GitHubScrape(origins.github, last_scraped)
      [] source = "resume" -> ResumeScrape(origins.resume, Kwargs(source))

(* an __exit__ that closes only when the block raised nothing *)
ExitClosesOnSuccess(e) == e = "none"

(* __exit__ calls self._close_database() whatever the exception *)
ExitCloses(e) == TRUE

(* an __exit__ that returns True: the exception is suppressed *)
ExitResultSuppressed(e) == "none"

(* __exit__ returns False: the exception is not suppressed *)
ExitResult(e) == e

(* __init__ and __enter__: a new VectorDatabase, then connect() *)
PipeEnter ==
    /\ pc = "init"
    /\ client \in {"None", "closed"}
    /\ client' = "open"
    /\ db_ret' = Call("connect", "", None, "none", 0, 0)
    /\ hist' = Logged([hist EXCEPT !.connects = @ + 1, !.points_at_start = points,
                                    !.collection_at_start = collection],
                       "connect", "")
    /\ src_idx' = 1
    /\ pc' = "scrape"
    /\ UNCHANGED <<collection, points, next_id, run_no, sources, env, origins,
                   last_scraped, stored_hash, documents, chunked_docs, exc, outcome>>

(* _scrape_content: a source that is not activated or not configured *)
PipeSkip ==
    /\ pc = "scrape"
    /\ src_idx <= Len(SourceOrder)
    /\ Src \notin sources \/ Src \notin env
    /\ src_idx' = src_idx + 1
    /\ UNCHANGED <<dbVars, pc, run_no, sources, env, origins, last_scraped, stored_hash,
                   documents, chunked_docs, exc, outcome, hist>>

(* _scrape_source: last_scraped = self.vector_db.get_last_scraped_date(...) *)
PipeLookupDate ==
    /\ pc = "scrape"
    /\ src_idx <= Len(SourceOrder)
    /\ Src \in sources /\ Src \in env
    /\ GetLastScrapedDate(Src)
    /\ last_scraped' = db_ret'.value
    /\ hist' = Logged(hist, "get_last_scraped_date", Src)
    /\ pc' = "construct"
    /\ UNCHANGED <<run_no, sources, env, origins, src_idx, stored_hash,
                   documents, chunked_docs, exc, outcome>>

(* a _scrape_source that never looks the content hash up *)
AfterConstructNoHash(source) == "call"

(* _scrape_source: if source == "resume": kwargs["stored_hash"] = ... comes *)
(* between the construction and the scrape call                             *)
AfterConstruct(source) == IF source = "resume" THEN "hash" ELSE "call"

(* _scrape_source: scraper = scraper_class() *)
PipeConstruct ==
    /\ pc = "construct"
    /\ exc' = ScraperInit(Src)
    /\ pc' = IF exc' # "none" THEN "exit" ELSE AfterConstruct(Src)
    /\ hist' = Logged(hist, "construct", Src)
    /\ UNCHANGED <<dbVars, run_no, sources, env, origins, src_idx, last_scraped,
                   stored_hash, documents, chunked_docs, outcome>>

(* _scrape_source: kwargs["stored_hash"] = get_content_hash("resume") *)
PipeLookupHash ==
    /\ pc = "hash"
    /\ GetContentHash("resume")
    /\ stored_hash' = db_ret'.value
    /\ hist' = Logged(hist, "get_content_hash", Src)
    /\ pc' = "call"
    /\ UNCHANGED <<run_no, sources, env, origins, src_idx, last_scraped,
                   documents, chunked_docs, exc, outcome>>

(* _scrape_source: return scraper.scrape with kwargs, and documents.extend *)
PipeCall ==
    /\ pc = "call"
    /\ LET r == ScraperScrape(Src)
       IN  /\ exc' = r.raised
           /\ documents' = documents \o r.docs
           /\ hist' = Logged([hist EXCEPT !.scraped = @ \cup {Src}], "scrape", Src)
           /\ pc' = IF r.raised # "none" THEN "exit" ELSE "scrape"
           /\ src_idx' = IF r.raised # "none" THEN src_idx ELSE src_idx + 1
    /\ UNCHANGED <<dbVars, run_no, sources, env, origins, last_scraped, stored_hash,
                   chunked_docs, outcome>>

(* a test that never takes the early return *)
NoDocumentsNever(docs) == FALSE

(* run: not documents *)
NoDocuments(docs) == docs = <<>>

(* run: if not documents: return *)
PipeScrapeDone ==
    /\ pc = "scrape"
    /\ src_idx > Len(SourceOrder)
    /\ pc' = IF NoDocuments(documents) THEN "exit" ELSE "chunk"
    /\ UNCHANGED <<dbVars, run_no, sources, env, origins, src_idx, last_scraped,
                   stored_hash, documents, chunked_docs, exc, outcome, hist>>

(* _chunk_documents *)
PipeChunk ==
    /\ pc = "chunk"
    /\ chunked_docs' = ChunkDocuments(documents, chunk_size, overlap)
    /\ hist' = Logged([hist EXCEPT !.stages = @ \cup {"chunk"}], "chunk", "")
    /\ pc' = "embedder"
    /\ UNCHANGED <<dbVars, run_no, sources, env, origins, src_idx, last_scraped,
                   stored_hash, documents, exc, outcome>>

(* _embed_and_store: Embedder(model_name=...); loading the model may fail *)
PipeEmbedderInit ==
    /\ pc = "embedder"
    /\ \E e \in {"none", "EmbeddingBackendError"} :
          /\ exc' = e
          /\ pc' = IF e = "none" THEN "setup" ELSE "exit"
    /\ hist' = Logged([hist EXCEPT !.stages = @ \cup {"embedder"}], "embedder", "")
    /\ UNCHANGED <<dbVars, run_no, sources, env, origins, src_idx, last_scraped,
                   stored_hash, documents, chunked_docs, outcome>>

(* _embed_and_store: self.vector_db.setup_database(embedding_dim=...) *)
PipeSetup ==
    /\ pc = "setup"
    /\ SetupDatabase(EmbeddingDim)
    /\ hist' = Logged([hist EXCEPT !.stages = @ \cup {"setup_database"}],
                       "setup_database", "")
    /\ pc' = "embed"
    /\ UNCHANGED <<run_no, sources, env, origins, src_idx, last_scraped, stored_hash,
                   documents, chunked_docs, exc, outcome>>

(* Embedder.store: embed_documents; the backend may fail *)
PipeEmbed ==
    /\ pc = "embed"
    /\ \E e \in {"none", "EmbeddingBackendError"} :
          /\ exc' = e
          /\ chunked_docs' = IF e = "none" THEN AddEmbeddings(chunked_docs) ELSE chunked_docs
          /\ pc' = IF e = "none" THEN "insert" ELSE "exit"
    /\ hist' = Logged(hist, "embed", "")
    /\ UNCHANGED <<dbVars, run_no, sources, env, origins, src_idx, last_scraped,
                   stored_hash, documents, outcome>>

(* Embedder.store: vector_db.insert_documents(documents) *)
PipeInsert ==
    /\ pc = "insert"
    /\ InsertDocuments(chunked_docs)
    /\ exc' = db_ret'.raised
    /\ hist' = Logged([hist EXCEPT !.stages = @ \cup {"insert_documents"}],
                       "insert_documents", "")
    /\ pc' = "exit"
    /\ UNCHANGED <<run_no, sources, env, origins, src_idx, last_scraped, stored_hash,
                   documents, chunked_docs, outcome>>

(* __exit__: self._close_database() *)
PipeExit ==
    /\ pc = "exit"
    /\ IF ExitCloses(exc)
       THEN /\ Close
            /\ hist' = Logged([hist EXCEPT !.closes = @ + 1], "close", "")
       ELSE UNCHANGED <<dbVars, hist>>
    /\ pc' = "exited"
    /\ UNCHANGED <<run_no, sources, env, origins, src_idx, last_scraped, stored_hash,
                   documents, chunked_docs, exc, outcome>>

(* the with statement ends: the exception, if any, reaches the caller *)
PipeSurface ==
    /\ pc = "exited"
    /\ outcome' = ExitResult(exc)
    /\ pc' = "done"
    /\ UNCHANGED <<dbVars, run_no, sources, env, origins, src_idx, last_scraped,
                   stored_hash, documents, chunked_docs, exc, hist>>

(* the next run of the pipeline, with the same configuration, against the   *)
(* same origins and the same backend                                        *)
PipeNewRun ==
    /\ pc = "done"
    /\ run_no < MaxRuns
    /\ run_no' = run_no + 1
    /\ pc' = "init"
    /\ client' = "None"
    /\ src_idx' = 0
    /\ last_scraped' = None
    /\ stored_hash' = None
    /\ documents' = <<>>
    /\ chunked_docs' = <<>>
    /\ exc' = "none"
    /\ outcome' = "pending"
    /\ hist' = NoHist
    /\ UNCHANGED <<collection, points, next_id, db_ret, sources, env, origins>>

PipeFeeds ==
    {[reachable |-> r, entries |-> Items(tss)] :
        r \in BOOLEAN, tss \in UNION {[1..n -> 0..MaxDate] : n \in 0..MaxFeed}}

DefaultFeed == [reachable |-> TRUE, entries |-> <<>>]

DefaultGitHubOrigin ==
    [profile |-> [status |-> "ok", ok |-> TRUE, title |-> 0, content |-> Word, ts |-> 1],
     repos |-> Items(<<1>>), fail_at |-> 0]

DefaultResumeOrigin ==
    [status |-> "ok", title |-> 0, content |-> Word, ts |-> 1, content_hash |-> "h1"]

(* IngestionPipeline(sources=...): the activated sources (all by default),  *)
(* the environment and the origins; the backend holds no collection yet     *)
Init ==
    /\ text = <<>>
    /\ chunk_size = DefaultChunkSize
    /\ overlap = DefaultOverlap
    /\ words = <<>>
    /\ chunks = <<>>
    /\ starts = <<>>
    /\ i = 0
    /\ cpc = "idle"
    /\ DbIdle
    /\ ScrapeIdle
    /\ HeapIdle /\ ApiIdle
    /\ pc = "init"
    /\ run_no = 1
    /\ sources \in (SUBSET Sources) \ {{}}
    /\ env \in SUBSET Sources
    /\ \E f \in PipeFeeds, r \in ResumeOrigins :
          origins = [medium |-> IF "medium" \in sources \cap env THEN f ELSE DefaultFeed,
                     github |-> DefaultGitHubOrigin,
                     resume |-> IF "resume" \in sources \cap env THEN r
                                ELSE DefaultResumeOrigin]
    /\ src_idx = 0
    /\ last_scraped = None
    /\ stored_hash = None
    /\ documents = <<>>
    /\ chunked_docs = <<>>
    /\ exc = "none"
    /\ outcome = "pending"
    /\ hist = NoHist

Next ==
    \/ PipeEnter /\ UNCHANGED <<chunkVars, scrapeVars, heapVars, apiVars>>
    \/ PipeSkip /\ UNCHANGED <<chunkVars, scrapeVars, heapVars, apiVars>>
    \/ PipeLookupDate /\ UNCHANGED <<chunkVars, scrapeVars, heapVars, apiVars>>
    \/ PipeConstruct /\ UNCHANGED <<chunkVars, scrapeVars, heapVars, apiVars>>
    \/ PipeLookupHash /\ UNCHANGED <<chunkVars, scrapeVars, heapVars, apiVars>>
    \/ PipeCall /\ UNCHANGED <<chunkVars, scrapeVars, heapVars, apiVars>>
    \/ PipeScrapeDone /\ UNCHANGED <<chunkVars, scrapeVars, heapVars, apiVars>>
    \/ PipeChunk /\ UNCHANGED <<chunkVars, scrapeVars, heapVars, apiVars>>
    \/ PipeEmbedderInit /\ UNCHANGED <<chunkVars, scrapeVars, heapVars, apiVars>>
    \/ PipeSetup /\ UNCHANGED <<chunkVars, scrapeVars, heapVars, apiVars>>
    \/ PipeEmbed /\ UNCHANGED <<chunkVars, scrapeVars, heapVars, apiVars>>
    \/ PipeInsert /\ UNCHANGED <<chunkVars, scrapeVars, heapVars, apiVars>>
    \/ PipeExit /\ UNCHANGED <<chunkVars, scrapeVars, heapVars, apiVars>>
    \/ PipeSurface /\ UNCHANGED <<chunkVars, scrapeVars, heapVars, apiVars>>
    \/ PipeNewRun /\ UNCHANGED <<chunkVars, scrapeVars, heapVars, apiVars>>

Spec == Init /\ [][Next]_vars

-----------------------------------------------------------------------------
(* Pipeline claims *)

(* the watermark the store reports once docs are stored: the latest         *)
(* published_date, through isoformat() and fromisoformat()                  *)
WatermarkAfter(docs) ==
    LET d == CHOOSE x \in Range(docs) :
                 \A y \in Range(docs) : y.published_date.ts <= x.published_date.ts
    IN  FromIsoFormat(IsoFormat(d.published_date))

(* the scrape of the same origin by the run that follows the ingestion of   *)
(* first                                                                    *)
ScrapeAgain(call, first) ==
    CASE call.adapter = "medium" -> MediumScrape(call.origin, WatermarkAfter(first))
      [] call.adapter = "github" -> GitHubScrape(call.origin, WatermarkAfter(first))
      [] call.adapter = "resume" -> ResumeScrape(call.origin, call.kwargs)

(* C3: a second run against unchanged origins stores nothing new: every     *)
(* document the first scrape of a source returned (no watermark yet) is     *)
(* filtered out when the source is scraped again with the watermark, or the *)
(* content hash, that the first run left in the store.                      *)
C3_SecondRunFiltersAll ==
    (scrape_call.adapter # "none" /\ scrape_call.last_scraped_date = None
        /\ scrape_ret.raised = "none" /\ scrape_ret.docs # <<>>) =>
        LET again == ScrapeAgain(scrape_call, scrape_ret.docs)
        IN  /\ again.raised = "none"
            /\ \A d \in Range(scrape_ret.docs) : d \notin Range(again.docs)

(* C6: a run through the with-block connects once and closes exactly once   *)
(* on every exit path (normal completion, early return on an empty scrape,  *)
(* an exception in any stage); the close comes before the exception         *)
(* reaches the caller, and the exception is not suppressed.                 *)
C6_ClosedExactlyOnce ==
    /\ hist.connects <= 1 /\ hist.closes <= 1
    /\ pc \in {"scrape", "construct", "hash", "call", "chunk", "embedder", "setup",
               "embed", "insert", "exit"} =>
          (hist.connects = 1 /\ hist.closes = 0 /\ client = "open")
    /\ pc \in {"exited", "done"} =>
          (hist.connects = 1 /\ hist.closes = 1 /\ client = "closed")
    /\ outcome # "pending" => (hist.closes = 1 /\ outcome = exc)

(* a run in which a stage raised has ended: the connection was closed and   *)
(* the caller has the exception                                             *)
C6_Witness ==
    /\ pc = "done"
    /\ outcome \notin {"none", "pending"}
    /\ hist.closes = 1
    /\ client = "closed"

(* C7: when the adapter of one activated, configured source fails, in its   *)
(* construction or in its scrape, every other activated, configured source  *)
(* is still scraped in that run and its documents go on to the next stage.  *)
C7_SourcesIndependent ==
    (pc = "done" /\ src_idx \in 1..Len(SourceOrder)) =>
        /\ \A s \in (sources \cap env) \ {Src} : s \in hist.scraped
        /\ documents # <<>> => chunked_docs # <<>>
-----------------------------------------------------------------------------
(* Vector store claims, continued *)

StoreOps == {"setup_database", "insert_documents", "search_similar",
             "get_last_scraped_date", "get_content_hash"}

(* C11: every store operation other than connect and close, called before  *)
(* connect(), fails with NotConnectedError and leaves the store unchanged.  *)
C11_NotConnectedError ==
    (db_ret.op \in StoreOps /\ client = "None") =>
        /\ db_ret.raised = "NotConnectedError"
        /\ points = <<>>
        /\ ~collection.exists
-----------------------------------------------------------------------------
(* Chunker claims, continued *)

(* C12: a TextChunker whose step chunk_size - overlap is zero or negative   *)
(* is rejected at construction, so chunk_text never runs with such a step.  *)
C12_StepPositive ==
    cpc \in {"start", "loop", "done"} => StepSize(chunk_size, overlap) > 0
-----------------------------------------------------------------------------
(* Vector store claims, continued *)

IdsOf(ps) == {ps[k].id : k \in 1..Len(ps)}

(* C13: insert_documents adds exactly one new point per embedded chunk,     *)
(* each with an id that no point had before and no other new point has;     *)
(* whatever inserts and reads are interleaved, no stored point is modified  *)
(* or removed, so the stored points only grow.                              *)
C13_AppendOnly ==
    [][/\ Len(points') >= Len(points)
       /\ SubSeq(points', 1, Len(points)) = points
       /\ \A k \in (Len(points) + 1)..Len(points') :
             /\ points'[k].id \notin IdsOf(points)
             /\ \A j \in (Len(points) + 1)..Len(points') :
                   j # k => points'[j].id # points'[k].id
       /\ (db_ret'.op = "insert_documents" /\ db_ret'.raised = "none") =>
             Len(points') = Len(points) + (next_id' - next_id)]_vars

(* a second successful insert into a store that already held points, with  *)
(* reads of the store in between                                           *)
C13_Witness ==
    /\ db_ret.op = "insert_documents"
    /\ db_ret.raised = "none"
    /\ Len(points) >= 3
    /\ Cardinality(IdsOf(points)) = Len(points)
    /\ "published_date" \in collection.payload_schema

-----------------------------------------------------------------------------
(* TextChunker.chunk_documents on dict objects: what it copies and what it  *)
(* shares                                                                   *)

MaxDocs == 2
MaxWords == 3

(* the j-th word of a content, every word different from the others *)
WordNo(j) == [x \in 1..j |-> "a"]

(* a content of n words *)
Content(n) == Join([j \in 1..n |-> WordNo(j)])

(* a document as the adapters build it (_create_document): scalar fields    *)
(* and a metadata dict of its own                                           *)
DocumentDict(title, n, metadata) ==
    [title |-> title, content |-> Content(n), url |-> "u",
     published_date |-> Datetime(1, FALSE), source |-> "medium", metadata |-> metadata]

MetadataDict == [lang |-> "py"]

(* the dict at address r, its metadata dict included *)
Value(h, r) ==
    [f \in DOMAIN h[r] |-> IF f = "metadata" THEN h[h[r].metadata] ELSE h[r][f]]

(* copy.copy: a new dict whose values are the same objects *)
ShallowCopy(h, r) ==
    LET h1 == Append(h, h[r])
    IN  [heap |-> h1, ref |-> Len(h1)]

(* copy.deepcopy: a new dict, and a new metadata dict inside it *)
DeepCopy(h, r) ==
    LET h1 == Append(h, h[h[r].metadata])
        h2 == Append(h1, [h[r] EXCEPT !.metadata = Len(h1)])
    IN  [heap |-> h2, ref |-> Len(h2)]

(* dict[key] = value *)
SetItem(h, r, key, value) ==
    [h EXCEPT ![r] = [f \in (DOMAIN h[r]) \cup {key} |->
                         IF f = key THEN value ELSE h[r][f]]]

(* a chunked document whose chunk_index counts from 1 *)
CreateChunkedDocumentFromOne(h, r, chunk_content, chunk_index) ==
    LET c == DeepCopy(h, r)
    IN  [heap |-> SetItem(SetItem(c.heap, c.ref, "content", chunk_content),
                          c.ref, "chunk_index", chunk_index + 1),
         ref |-> c.ref]

(* _create_chunked_document(original_doc, chunk_content, chunk_index) *)
CreateChunkedDocumentAt(h, r, chunk_content, chunk_index) ==
    LET c == DeepCopy(h, r)
    IN  [heap |-> SetItem(SetItem(c.heap, c.ref, "content", chunk_content),
                          c.ref, "chunk_index", chunk_index),
         ref |-> c.ref]

(* for chunk_index, chunk_content in enumerate(text_chunks): ... append *)
RECURSIVE ChunkOneDocument(_, _, _, _, _)
ChunkOneDocument(h, r, text_chunks, chunk_index, out) ==
    IF chunk_index >= Len(text_chunks) THEN [heap |-> h, refs |-> out]
    ELSE LET c == CreateChunkedDocumentAt(h, r, text_chunks[chunk_index + 1], chunk_index)
         IN  ChunkOneDocument(c.heap, r, text_chunks, chunk_index + 1, Append(out, c.ref))

(* chunk_documents(documents): for doc in documents: ... *)
RECURSIVE ChunkDocumentsAt(_, _, _, _, _)
ChunkDocumentsAt(h, refs, size, ov, out) ==
    IF refs = <<>> THEN [heap |-> h, refs |-> out]
    ELSE LET r == ChunkOneDocument(h, Head(refs),
                                   ChunkText(h[Head(refs)].content, size, ov), 0, out)
         IN  ChunkDocumentsAt(r.heap, Tail(refs), size, ov, r.refs)

CallChunkDocuments ==
    /\ heap_op.op = "new"
    /\ LET r == ChunkDocumentsAt(heap, doc_refs, chunk_size, overlap, <<>>)
       IN  /\ heap' = r.heap
           /\ chunk_refs' = r.refs
    /\ heap_op' = [op |-> "chunk_documents"]
    /\ UNCHANGED <<doc_refs, chunkVars>>

(* the caller then assigns to a scalar field of one chunk: result[pos][f] = ... *)
MutateField ==
    /\ heap_op.op = "chunk_documents"
    /\ \E pos \in 1..Len(chunk_refs), f \in {"title", "source"} :
          /\ heap' = SetItem(heap, chunk_refs[pos], f, "modified")
          /\ heap_op' = [op |-> "mutate", pos |-> pos, field |-> f]
    /\ UNCHANGED <<doc_refs, chunk_refs, chunkVars>>

(* or changes its metadata in place: result[pos]['metadata']['lang'] = ... *)
MutateMetadata ==
    /\ heap_op.op = "chunk_documents"
    /\ \E pos \in 1..Len(chunk_refs) :
          /\ heap' = SetItem(heap, heap[chunk_refs[pos]].metadata, "lang", "modified")
          /\ heap_op' = [op |-> "mutate", pos |-> pos, field |-> "metadata"]
    /\ UNCHANGED <<doc_refs, chunk_refs, chunkVars>>

(* the lists of documents: each a dict with a metadata dict of its own *)
DocLists ==
    UNION {[1..n -> {"t1", "t2"} \X (0..MaxWords)] : n \in 0..MaxDocs}

HeapOf(docs) ==
    [a \in 1..(2 * Len(docs)) |->
        IF a % 2 = 1 THEN MetadataDict
        ELSE DocumentDict(docs[a \div 2][1], docs[a \div 2][2], a - 1)]

InitChunkDocs ==
    /\ DbIdle
    /\ ScrapeIdle
    /\ PipeIdle
    /\ text = <<>>
    /\ chunk_size \in 1..MaxChunkSize
    /\ overlap \in 0..(chunk_size - 1)
    /\ words = <<>>
    /\ chunks = <<>>
    /\ starts = <<>>
    /\ i = 0
    /\ cpc = "idle"
    /\ \E docs \in DocLists :
          /\ heap = HeapOf(docs)
          /\ doc_refs = [k \in 1..Len(docs) |-> 2 * k]
    /\ chunk_refs = <<>>
    /\ heap_op = [op |-> "new"]
    /\ ApiIdle

NextChunkDocs ==
    \/ CallChunkDocuments /\ UNCHANGED <<dbVars, scrapeVars, pipeVars, apiVars>>
    \/ MutateField /\ UNCHANGED <<dbVars, scrapeVars, pipeVars, apiVars>>
    \/ MutateMetadata /\ UNCHANGED <<dbVars, scrapeVars, pipeVars, apiVars>>

SpecChunkDocs == InitChunkDocs /\ [][NextChunkDocs]_vars

(* the documents given and the chunked documents returned, as values *)
DocValues == [k \in 1..Len(doc_refs) |-> Value(heap, doc_refs[k])]

ChunkValues == [k \in 1..Len(chunk_refs) |-> Value(heap, chunk_refs[k])]

(* the windows of document d *)
WindowsOf(d) == ChunkText(DocValues[d].content, chunk_size, overlap)

(* how many chunks come before those of document d *)
RECURSIVE ChunksBefore(_)
ChunksBefore(d) == IF d <= 1 THEN 0 ELSE ChunksBefore(d - 1) + Len(WindowsOf(d - 1))

(* C14: chunk_documents emits the chunks of each document contiguously and  *)
(* in document order; the chunk_index values of one parent are 0..N-1 in    *)
(* the order the windows were cut; every field of the parent other than     *)
(* content and chunk_index is unchanged on each chunk.                      *)
C14_ChunkDocuments ==
    heap_op.op = "chunk_documents" =>
        /\ Len(chunk_refs) = ChunksBefore(Len(doc_refs) + 1)
        /\ \A d \in 1..Len(doc_refs) : \A k \in 1..Len(WindowsOf(d)) :
              LET c == ChunkValues[ChunksBefore(d) + k]
              IN  /\ c.chunk_index = k - 1
                  /\ c.content = WindowsOf(d)[k]
                  /\ DOMAIN c = (DOMAIN DocValues[d]) \cup {"chunk_index"}
                  /\ \A f \in (DOMAIN DocValues[d]) \ {"content"} : c[f] = DocValues[d][f]

(* two documents with different titles, each cut into two windows or more *)
C14_Witness ==
    /\ heap_op.op = "chunk_documents"
    /\ Len(doc_refs) = 2
    /\ DocValues[1].title # DocValues[2].title
    /\ Len(WindowsOf(1)) >= 2
    /\ Len(WindowsOf(2)) >= 2
    /\ Len(chunk_refs) = Len(WindowsOf(1)) + Len(WindowsOf(2))

(* C18: each chunk chunk_documents returns is an independent copy of its    *)
(* parent: after a field of one chunk is mutated, every other chunk, of the *)
(* same parent or of another, and every input document is as it was.        *)
C18_IndependentCopies ==
    [][heap_op'.op = "mutate" =>
          /\ Value(heap', chunk_refs[heap_op'.pos]) # Value(heap, chunk_refs[heap_op'.pos])
          /\ \A j \in 1..Len(chunk_refs) :
                j # heap_op'.pos => Value(heap', chunk_refs[j]) = Value(heap, chunk_refs[j])
          /\ \A d \in 1..Len(doc_refs) :
                Value(heap', doc_refs[d]) = Value(heap, doc_refs[d])]_vars

(* a chunk that has a sibling of the same parent and a chunk of another     *)
(* parent had its metadata changed in place                                 *)
C18_Witness ==
    /\ heap_op.op = "mutate"
    /\ heap_op.field = "metadata"
    /\ Len(doc_refs) = 2
    /\ Len(WindowsOf(1)) >= 2
    /\ Len(WindowsOf(2)) >= 1
    /\ heap_op.pos = 1

-----------------------------------------------------------------------------
(* Chunker claims, continued *)

(* ceil(a / b) for a >= 0, b > 0 *)
CeilDiv(a, b) == (a + b - 1) \div b

(* the number of windows of the reference windowing of n words *)
ReferenceCount(n, size, step) ==
    IF n = 0 THEN 0
    ELSE IF n <= size THEN 1
    ELSE 1 + CeilDiv(n - size, step)

(* C15: chunk_text is the reference windowing: no chunk for no word, one    *)
(* chunk with all the words when 1 <= n <= chunk_size, and otherwise        *)
(* 1 + ceil((n - chunk_size) / step) chunks, the k-th (from 0) being the    *)
(* words k*step .. min(k*step + chunk_size, n) - 1.                         *)
C15_ReferenceWindowing ==
    cpc = "done" =>
        LET n == Len(words)
            step == chunk_size - overlap
        IN  /\ Len(chunks) = ReferenceCount(n, chunk_size, step)
            /\ \A k \in 0..(Len(chunks) - 1) :
                  chunks[k + 1] =
                      Join(SubSeq(words, k * step + 1, Min(k * step + chunk_size, n)))

(* a finished call that cut three overlapping windows or more, the last one *)
(* ending at the last word                                                  *)
C15_Witness ==
    /\ cpc = "done"
    /\ overlap > 0
    /\ Len(words) > chunk_size
    /\ Len(chunks) >= 3
    /\ Len(chunks) = 1 + CeilDiv(Len(words) - chunk_size, chunk_size - overlap)
-----------------------------------------------------------------------------
(* Pipeline claims, continued *)

-----------------------------------------------------------------------------
(* run() from the Chunk stage on: the documents the Scrape stage returned   *)
(* are chunked by self.chunker, embedded and stored, in a store that holds  *)
(* nothing yet                                                              *)

(* a scraped document: its url follows its title, its source too *)
ScrapedDocument(title, n) ==
    CreateDocument(IF title = "t1" THEN "medium" ELSE "github", title, Content(n),
                   title, Datetime(1, FALSE))

ScrapedLists ==
    {[k \in 1..Len(l) |-> ScrapedDocument(l[k][1], l[k][2])] : l \in DocLists}

InitStages ==
    /\ text = <<>>
    /\ chunk_size \in 1..MaxChunkSize
    /\ overlap \in 0..(chunk_size - 1)
    /\ words = <<>>
    /\ chunks = <<>>
    /\ starts = <<>>
    /\ i = 0
    /\ cpc = "idle"
    /\ client = "open"
    /\ collection = NoCollection
    /\ points = <<>>
    /\ next_id = 0
    /\ db_ret = Call("connect", "", None, "none", 0, 0)
    /\ ScrapeIdle
    /\ HeapIdle /\ ApiIdle
    /\ pc = "scrape"
    /\ run_no = 1
    /\ sources = Sources
    /\ env = {}
    /\ origins = <<>>
    /\ src_idx = Len(SourceOrder) + 1
    /\ last_scraped = None
    /\ stored_hash = None
    /\ documents \in ScrapedLists
    /\ chunked_docs = <<>>
    /\ exc = "none"
    /\ outcome = "pending"
    /\ hist = Logged([NoHist EXCEPT !.connects = 1], "connect", "")

NextStages ==
    \/ PipeScrapeDone /\ UNCHANGED <<chunkVars, scrapeVars, heapVars, apiVars>>
    \/ PipeChunk /\ UNCHANGED <<chunkVars, scrapeVars, heapVars, apiVars>>
    \/ PipeEmbedderInit /\ UNCHANGED <<chunkVars, scrapeVars, heapVars, apiVars>>
    \/ PipeSetup /\ UNCHANGED <<chunkVars, scrapeVars, heapVars, apiVars>>
    \/ PipeEmbed /\ UNCHANGED <<chunkVars, scrapeVars, heapVars, apiVars>>
    \/ PipeInsert /\ UNCHANGED <<chunkVars, scrapeVars, heapVars, apiVars>>
    \/ PipeExit /\ UNCHANGED <<chunkVars, scrapeVars, heapVars, apiVars>>
    \/ PipeSurface /\ UNCHANGED <<chunkVars, scrapeVars, heapVars, apiVars>>

SpecStages == InitStages /\ [][NextStages]_vars

(* the windows self.chunker cuts from scraped document d *)
DocWindows(d) == ChunkText(documents[d].content, chunk_size, overlap)

(* how many points come before those of document d *)
RECURSIVE PointsBefore(_)
PointsBefore(d) == IF d <= 1 THEN 0 ELSE PointsBefore(d - 1) + Len(DocWindows(d - 1))

(* C17: after a run that stores its scraped documents in an empty store,    *)
(* the store holds one point per chunk, the sum over the documents of their *)
(* chunk counts, and every point carries its window's chunk_index and       *)
(* content and its parent's source, url and title.                          *)
C17_OnePointPerChunk ==
    (pc \in {"exit", "exited", "done"} /\ "insert_documents" \in hist.stages
        /\ exc = "none") =>
        /\ Len(points) = PointsBefore(Len(documents) + 1)
        /\ \A d \in 1..Len(documents) : \A k \in 1..Len(DocWindows(d)) :
              LET payload == points[PointsBefore(d) + k].payload
              IN  /\ payload.chunk_index = k - 1
                  /\ payload.content = DocWindows(d)[k]
                  /\ payload.source = documents[d].source
                  /\ payload.url = documents[d].url
                  /\ payload.title = documents[d].title

(* two documents, the first cut into two windows and the second into one,   *)
(* stored as three points                                                   *)
C17_Witness ==
    /\ pc = "done"
    /\ outcome = "none"
    /\ Len(documents) = 2
    /\ documents[1].title # documents[2].title
    /\ Len(DocWindows(1)) = 2
    /\ Len(DocWindows(2)) = 1
    /\ Len(points) = 3
-----------------------------------------------------------------------------
(* Vector store claims, continued *)

(* C19: setup_database(embedding_dim) creates the collection, with that     *)
(* dimension and cosine distance, when it does not exist; when it exists    *)
(* the call changes neither the collection nor its points, whatever the     *)
(* dimension given; the collection, once created, stays and is never        *)
(* created again.                                                           *)
C19_SetupIdempotent ==
    [][/\ (db_ret'.op = "setup_database" /\ db_ret'.raised = "none") =>
             /\ points' = points
             /\ IF collection.exists
                THEN collection' = collection /\ db_ret'.creates = 0
                ELSE /\ db_ret'.creates = 1
                     /\ collection' = [exists |-> TRUE, size |-> db_ret'.embedding_dim,
                                        distance |-> "Cosine", payload_schema |-> {}]
       /\ collection.exists =>
             /\ collection'.exists
             /\ collection'.size = collection.size
             /\ collection'.distance = collection.distance]_vars

(* a later setup_database, given another dimension, on a collection that    *)
(* holds points                                                             *)
C19_Witness ==
    /\ db_ret.op = "setup_database"
    /\ db_ret.raised = "none"
    /\ db_ret.creates = 0
    /\ db_ret.embedding_dim # collection.size
    /\ Len(points) > 0
-----------------------------------------------------------------------------
(* POST /query/stream (api/main.py): query_stream and its generate()        *)

MaxFragments == 2

(* the methods class PromptBuilder defines (retrieval/prompt.py) *)
PromptBuilderMethods == {"__init__", "build_context", "generate_answer", "answer_question"}

(* prompt_builder.<name> can be looked up *)
HasMethod(name) == name \in PromptBuilderMethods

(* json.dumps({'type': 'sources', 'sources': retrieved_docs}) *)
SourcesEvent(docs) == [type |-> "sources", sources |-> docs]

(* json.dumps({'type': 'text', 'content': chunk}) *)
TextEvent(chunk) == [type |-> "text", content |-> chunk]

(* the try block: query_engine.search (embed_text, then search_similar) and *)
(* build_context; any exception becomes HTTPException(500, detail=str(e)).  *)
(* The context is used by generate_answer_stream only.                      *)
QueryStreamRetrieve ==
    /\ spc = "request"
    /\ \E e \in {"none", "EmbeddingBackendError"} :
          IF e # "none"
          THEN /\ http' = "500"
               /\ detail' = e
               /\ spc' = "done"
               /\ UNCHANGED <<dbVars, retrieved_docs>>
          ELSE /\ SearchSimilar(request.top_k)
               /\ IF db_ret'.raised # "none"
                  THEN /\ http' = "500"
                       /\ detail' = db_ret'.raised
                       /\ spc' = "done"
                       /\ UNCHANGED retrieved_docs
                  ELSE /\ retrieved_docs' = db_ret'.value
                       /\ spc' = "respond"
                       /\ UNCHANGED <<http, detail>>
    /\ api_hist' = [api_hist EXCEPT !.searches = @ + 1]
    /\ UNCHANGED <<request, events, fragments, body, cache, context>>

(* generate(): the first yield *)
GenerateSources ==
    /\ spc = "respond"
    /\ events' = Append(events, SourcesEvent(retrieved_docs))
    /\ http' = "streaming"
    /\ spc' = "generate"
    /\ UNCHANGED <<dbVars, request, retrieved_docs, fragments, detail, body, cache,
                   context, api_hist>>

(* generate(): for chunk in prompt_builder.generate_answer_stream(...):     *)
(* yield a text event. The attribute is looked up first; without it the     *)
(* generator raises AttributeError and the response ends there.             *)
GenerateText ==
    /\ spc = "generate"
    /\ IF HasMethod("generate_answer_stream")
       THEN /\ events' = events \o [k \in 1..Len(fragments) |-> TextEvent(fragments[k])]
            /\ http' = "complete"
       ELSE /\ http' = "aborted"
            /\ UNCHANGED events
    /\ spc' = "done"
    /\ UNCHANGED <<dbVars, request, retrieved_docs, fragments, detail, body, cache,
                   context, api_hist>>

(* a request arrives at the running application: vector_db is connected,    *)
(* the store holds what earlier ingestion left in it                        *)
InitStream ==
    /\ ChunkIdle
    /\ ScrapeIdle
    /\ PipeIdle
    /\ HeapIdle
    /\ client = "open"
    /\ \E stored \in DbBatches \cup {<<>>}, made \in BOOLEAN :
          /\ collection = IF made \/ stored # <<>> THEN CreateCollection(EmbeddingDim)
                          ELSE NoCollection
          /\ points = CreatePoints(stored, 0)
          /\ next_id = Len(stored)
    /\ db_ret = Call("connect", "", None, "none", 0, 0)
    /\ spc = "request"
    /\ request \in [question : {"q"}, top_k : 1..MaxTopK]
    /\ retrieved_docs = <<>>
    /\ events = <<>>
    /\ fragments \in UNION {[1..n -> {"f1", "f2"}] : n \in 0..MaxFragments}
    /\ http = "pending"
    /\ detail = ""
    /\ body = None
    /\ cache = <<>>
    /\ context = <<>>
    /\ api_hist = [NoApiHist EXCEPT !.requests = 1, !.endpoint = "/query/stream"]

NextStream ==
    \/ QueryStreamRetrieve /\ UNCHANGED <<chunkVars, scrapeVars, pipeVars, heapVars>>
    \/ GenerateSources /\ UNCHANGED <<chunkVars, scrapeVars, pipeVars, heapVars>>
    \/ GenerateText /\ UNCHANGED <<chunkVars, scrapeVars, pipeVars, heapVars>>

SpecStream == InitStream /\ [][NextStream]_vars

(* C20: the streaming query emits exactly one 'sources' event, before every *)
(* 'text' event; the text events then carry the generated fragments in      *)
(* arrival order, none dropped, duplicated or reordered.                    *)
C20_SourcesThenText ==
    (spc = "done" /\ http # "500") =>
        events = <<SourcesEvent(retrieved_docs)>>
                    \o [k \in 1..Len(fragments) |-> TextEvent(fragments[k])]

-----------------------------------------------------------------------------
(* POST /query (api/main.py): query and _cached_rag_query behind lru_cache  *)

MaxRequests == 2

CacheMaxSize == 128

Questions == {"q1", "q2"}

Requests == [question : Questions, top_k : 1..MaxTopK]

(* what the answering backend can return for a prompt: the sampling is not  *)
(* deterministic (temperature=0.7)                                          *)
Answers == {"a1", "a2"}

(* the key lru_cache makes of the arguments (question, top_k) *)
Key(req) == <<req.question, req.top_k>>

CacheIndex(key) == {k \in 1..Len(cache) : cache[k].key = key}

(* lru_cache: the lookup that never finds an entry *)
CacheHoldsNever(key) == FALSE

(* lru_cache: an entry for the key is held *)
CacheHolds(key) == CacheIndex(key) # {}

CacheValue(key) == cache[CHOOSE k \in CacheIndex(key) : TRUE].value

(* lru_cache on a hit: the entry becomes the most recently used *)
CacheTouch(key) ==
    SelectSeq(cache, LAMBDA e : e.key # key) \o <<[key |-> key, value |-> CacheValue(key)]>>

(* lru_cache on a miss that returned: the result is stored, the least       *)
(* recently used entry making room when maxsize entries are held            *)
CacheStore(key, value) ==
    (IF Len(cache) >= CacheMaxSize THEN Tail(cache) ELSE cache)
        \o <<[key |-> key, value |-> value]>>

(* answer_question: {'answer': answer, 'sources': retrieved_docs} *)
AnswerQuestion(answer, docs) == [answer |-> answer, sources |-> docs]

(* query: except Exception as e: raise HTTPException(500, detail=str(e)) *)
QueryFail(e) ==
    /\ http' = "500"
    /\ detail' = e
    /\ UNCHANGED <<body, cache>>

(* query: the whole handler. A held entry is returned by lru_cache without  *)
(* running _cached_rag_query; otherwise query_engine.search (embed_text,    *)
(* then search_similar) and answer_question (build_context, generate_answer)*)
(* run, and only a returned result is stored: an exception is not cached.   *)
Query ==
    /\ spc = "query"
    /\ IF CacheHolds(Key(request))
       THEN /\ body' = CacheValue(Key(request))
            /\ http' = "200"
            /\ cache' = CacheTouch(Key(request))
            /\ api_hist' = [api_hist EXCEPT !.hits = @ + 1,
                                            !.points_at_query = Len(points)]
            /\ UNCHANGED <<dbVars, retrieved_docs, detail>>
       ELSE \E e \in {"none", "EmbeddingBackendError"} :
               IF e # "none"
               THEN /\ QueryFail(e)
                    /\ api_hist' = [api_hist EXCEPT !.searches = @ + 1,
                                                    !.points_at_query = Len(points)]
                    /\ UNCHANGED <<dbVars, retrieved_docs>>
               ELSE /\ SearchSimilar(request.top_k)
                    /\ IF db_ret'.raised # "none"
                       THEN /\ QueryFail(db_ret'.raised)
                            /\ api_hist' = [api_hist EXCEPT !.searches = @ + 1,
                                                            !.points_at_query = Len(points)]
                            /\ UNCHANGED retrieved_docs
                       ELSE /\ retrieved_docs' = db_ret'.value
                            /\ api_hist' = [api_hist EXCEPT !.searches = @ + 1,
                                                            !.generations = @ + 1,
                                                            !.points_at_query = Len(points)]
                            /\ \E a \in Answers \cup {"AnsweringBackendError"} :
                                  IF a \notin Answers
                                  THEN QueryFail(a)
                                  ELSE /\ body' = AnswerQuestion(a, db_ret'.value)
                                       /\ cache' = CacheStore(Key(request), body')
                                       /\ http' = "200"
                                       /\ UNCHANGED detail
    /\ spc' = "done"
    /\ UNCHANGED <<request, events, fragments, context>>

(* a POST request is routed to its handler once the previous one is done *)
Receive(endpoint) ==
    /\ spc \in {"idle", "done"}
    /\ api_hist.requests < MaxRequests
    /\ request' \in Requests
    /\ spc' = IF endpoint = "/query" THEN "query" ELSE "request"
    /\ fragments' \in IF endpoint = "/query" THEN {<<>>}
                      ELSE UNION {[1..n -> {"f1"}] : n \in 0..MaxFragments}
    /\ retrieved_docs' = <<>>
    /\ events' = <<>>
    /\ http' = "pending"
    /\ detail' = ""
    /\ body' = None
    /\ api_hist' = [api_hist EXCEPT !.requests = @ + 1, !.endpoint = endpoint]
    /\ UNCHANGED <<dbVars, cache, context>>

(* an ingestion run sets the collection up while the application is serving *)
IngestSetup ==
    /\ SetupDatabase(EmbeddingDim)
    /\ UNCHANGED apiVars

(* the batches of an ingestion run: to the application only the number of  *)
(* points matters                                                           *)
ApiBatches == {<<DbDoc("medium", 1)>>}

(* an ingestion run stores a batch while the application is serving *)
IngestInsert ==
    /\ \E docs \in ApiBatches :
          /\ next_id + Len(docs) <= MaxPoints
          /\ InsertDocuments(docs)
    /\ UNCHANGED apiVars

(* the running application: vector_db is connected at import, the store     *)
(* holds what earlier ingestion left in it, the cache is empty              *)
InitApi ==
    /\ ChunkIdle
    /\ ScrapeIdle
    /\ PipeIdle
    /\ HeapIdle
    /\ ApiIdle
    /\ client = "open"
    /\ \E stored \in ApiBatches \cup {<<>>}, made \in BOOLEAN :
          /\ collection = IF made \/ stored # <<>> THEN CreateCollection(EmbeddingDim)
                          ELSE NoCollection
          /\ points = CreatePoints(stored, 0)
          /\ next_id = Len(stored)
    /\ db_ret = Call("connect", "", None, "none", 0, 0)

NextApi ==
    \/ Receive("/query") /\ UNCHANGED <<chunkVars, scrapeVars, pipeVars, heapVars>>
    \/ Receive("/query/stream") /\ UNCHANGED <<chunkVars, scrapeVars, pipeVars, heapVars>>
    \/ Query /\ UNCHANGED <<chunkVars, scrapeVars, pipeVars, heapVars>>
    \/ QueryStreamRetrieve /\ UNCHANGED <<chunkVars, scrapeVars, pipeVars, heapVars>>
    \/ GenerateSources /\ UNCHANGED <<chunkVars, scrapeVars, pipeVars, heapVars>>
    \/ GenerateText /\ UNCHANGED <<chunkVars, scrapeVars, pipeVars, heapVars>>
    \/ IngestSetup /\ UNCHANGED <<chunkVars, scrapeVars, pipeVars, heapVars>>
    \/ IngestInsert /\ UNCHANGED <<chunkVars, scrapeVars, pipeVars, heapVars>>

SpecApi == InitApi /\ [][NextApi]_vars

(* C21: at the query boundary (/query and /query/stream) a request ends     *)
(* either without an exception, or as HTTP 500 carrying the message of the  *)
(* exception and nothing of an answer: no body, no event.                   *)
C21_GenericFailure ==
    spc = "done" =>
        \/ http \in {"200", "complete"} /\ detail = ""
        \/ http = "500" /\ detail # "" /\ body = None /\ events = <<>>

-----------------------------------------------------------------------------
(* Pipeline claims, continued *)

(* the steps of the run that concern one source *)
StepsOf(s) == {k \in 1..Len(hist.log) : hist.log[k].source = s}

(* scraper.scrape was called for the source in this run *)
ScrapedInRun(s) == \E k \in StepsOf(s) : hist.log[k].stage = "scrape"

(* C22: when a run has ended, a source was scraped in it if and only if it  *)
(* is activated and its environment variable is set; for any other source   *)
(* the run made no watermark or hash lookup, constructed no adapter and     *)
(* called no scrape.                                                        *)
C22_ScrapedIffActivated ==
    pc = "done" =>
        \A s \in Sources :
            /\ ScrapedInRun(s) <=> (s \in sources /\ s \in env)
            /\ ~(s \in sources /\ s \in env) => StepsOf(s) = {}

-----------------------------------------------------------------------------
(* PromptBuilder.build_context (retrieval/prompt.py); a str is the sequence *)
(* of its characters                                                        *)

MaxRetrieved == 2

Digit == <<"0", "1", "2", "3", "4", "5", "6", "7", "8", "9">>

(* str(n) in an f-string, n >= 0 *)
RECURSIVE Decimal(_)
Decimal(n) ==
    IF n < 10 THEN <<Digit[n + 1]>>
    ELSE Decimal(n \div 10) \o <<Digit[(n % 10) + 1]>>

(* f"[Source {n}] {doc['title']} ({doc['source']})\n" f"{doc['content']}\n" *)
ContextPart(n, doc) ==
    <<"[", "S", "o", "u", "r", "c", "e", " ">> \o Decimal(n) \o <<"]", " ">>
        \o doc.title \o <<" ", "(">> \o doc.source \o <<")", "\n">>
        \o doc.content \o <<"\n">>

(* sep.join(parts) *)
RECURSIVE JoinWith(_, _)
JoinWith(sep, parts) ==
    IF parts = <<>> THEN <<>>
    ELSE IF Len(parts) = 1 THEN parts[1]
    ELSE parts[1] \o sep \o JoinWith(sep, Tail(parts))

(* a build_context whose enumerate counts from 0 *)
BuildContextFromZero(docs) ==
    LET context_parts == [k \in 1..Len(docs) |-> ContextPart(k - 1, docs[k])]
    IN  JoinWith(<<"\n">>, context_parts)

(* build_context(documents): enumerate(documents, 1) numbers the parts *)
BuildContext(docs) ==
    LET context_parts == [k \in 1..Len(docs) |-> ContextPart(k, docs[k])]
    IN  JoinWith(<<"\n">>, context_parts)

(* a retrieved document as _format_search_result gives it; url and score    *)
(* are not read by build_context                                            *)
RetrievedDocs ==
    [title : {<<"a">>, <<"b">>}, source : {<<"m">>, <<"g">>},
     content : {<<>>, <<"a">>, <<"a", " ", "b">>}]

CallBuildContext ==
    /\ spc = "build"
    /\ context' = BuildContext(retrieved_docs)
    /\ spc' = "built"
    /\ UNCHANGED <<request, retrieved_docs, events, fragments, http, detail, body, cache,
                   api_hist>>

InitContext ==
    /\ ChunkIdle
    /\ DbIdle
    /\ ScrapeIdle
    /\ PipeIdle
    /\ HeapIdle
    /\ spc = "build"
    /\ request = [question |-> "", top_k |-> 0]
    /\ retrieved_docs \in UNION {[1..n -> RetrievedDocs] : n \in 0..MaxRetrieved}
    /\ events = <<>>
    /\ fragments = <<>>
    /\ http = "pending"
    /\ detail = ""
    /\ body = None
    /\ cache = <<>>
    /\ context = <<>>
    /\ api_hist = NoApiHist

NextContext ==
    CallBuildContext /\ UNCHANGED <<chunkVars, dbVars, scrapeVars, pipeVars, heapVars>>

SpecContext == InitContext /\ [][NextContext]_vars

(* s.split(sep) for a one-character sep: the pieces between the separators *)
RECURSIVE SplitOn(_, _)
SplitOn(s, sep) ==
    IF \A k \in 1..Len(s) : s[k] # sep THEN <<s>>
    ELSE LET at == CHOOSE k \in 1..Len(s) : s[k] = sep /\ \A j \in 1..(k - 1) : s[j] # sep
         IN  <<SubSeq(s, 1, at - 1)>> \o SplitOn(SubSeq(s, at + 1, Len(s)), sep)

(* "[Source k] " *)
Label(k) == <<"[", "S", "o", "u", "r", "c", "e", " ">> \o Decimal(k) \o <<"]", " ">>

(* C23: build_context gives the empty string for no document; otherwise    *)
(* its lines are, for the k-th document in the order received (k counted    *)
(* from 1), the line '[Source k] title (source)', then the content, then an *)
(* empty line: one labeled block per document, in order.                    *)
C23_BuildContext ==
    spc = "built" =>
        LET n == Len(retrieved_docs)
            lines == SplitOn(context, "\n")
        IN  IF n = 0 THEN context = <<>>
            ELSE /\ Len(lines) = 3 * n
                 /\ \A k \in 1..n :
                       /\ lines[3 * k - 2] = Label(k) \o retrieved_docs[k].title
                                                 \o <<" ", "(">> \o retrieved_docs[k].source
                                                 \o <<")">>
                       /\ lines[3 * k - 1] = retrieved_docs[k].content
                       /\ lines[3 * k] = <<>>

(* two different documents were given and the context is built *)
C23_Witness ==
    /\ spc = "built"
    /\ Len(retrieved_docs) = 2
    /\ retrieved_docs[1] # retrieved_docs[2]
    /\ context # <<>>

-----------------------------------------------------------------------------
(* Chunker claims, continued *)

(* C24: when chunk_text has returned, every chunk but the last has exactly  *)
(* chunk_size words, two consecutive chunks share exactly overlap word      *)
(* positions, every chunk after the first covers a position the previous    *)
(* one does not, and the last chunk, and no other, ends at the last word.   *)
C24_NoRedundantWindow ==
    cpc = "done" =>
        LET m == Len(chunks)
        IN  /\ ChunksAreSlices
            /\ \A k \in 1..(m - 1) : Len(WordsOf(k)) = chunk_size
            /\ \A k \in 1..(m - 1) :
                  Cardinality(Covered(k) \cap Covered(k + 1)) = overlap
            /\ \A k \in 2..m : Covered(k) \ Covered(k - 1) # {}
            /\ {k \in 1..m : starts[k] + Len(WordsOf(k)) = Len(words)}
                  = IF m = 0 THEN {} ELSE {m}

(* a finished call with overlapping windows whose last window adds exactly  *)
(* one word to the previous one                                             *)
C24_Witness ==
    /\ cpc = "done"
    /\ overlap > 0
    /\ Len(chunks) >= 2
    /\ Cardinality(Covered(Len(chunks)) \ Covered(Len(chunks) - 1)) = 1

-----------------------------------------------------------------------------
(* Pipeline claims, continued *)

(* the stage of the run a logged step belongs to: connect, scrape (the      *)
(* lookups, the construction and the scrape call of each source), chunk,    *)
(* embed (the embedder, the collection set-up it sizes, the embedding),     *)
(* store (the insertion of the points), close                               *)
StageRank(stage) ==
    CASE stage = "connect" -> 0
      [] stage \in {"get_last_scraped_date", "construct", "get_content_hash", "scrape"} -> 1
      [] stage = "chunk" -> 2
      [] stage \in {"embedder", "setup_database", "embed"} -> 3
      [] stage = "insert_documents" -> 4
      [] stage = "close" -> 5

(* the positions in the log of a step for a source *)
StepsAt(stage, source) ==
    {k \in 1..Len(hist.log) : hist.log[k] = [stage |-> stage, source |-> source]}

(* C25: at every moment of a run the steps taken so far are in the order    *)
(* connect, scrape, chunk, embed, store, close, each of connect, chunk,     *)
(* embedding, store and close taken at most once (for all documents at      *)
(* once); and every scrape call of a source comes after the watermark       *)
(* lookup of that source, and for resume after the content-hash lookup.     *)
C25_StageOrder ==
    LET log == hist.log
    IN  /\ \A j, k \in 1..Len(log) :
              j < k => StageRank(log[j].stage) <= StageRank(log[k].stage)
        /\ \A st \in {"connect", "chunk", "embed", "insert_documents", "close"} :
              Cardinality(StepsAt(st, "")) <= 1
        /\ \A k \in 1..Len(log) :
              log[k].stage = "scrape" =>
                  /\ \E j \in StepsAt("get_last_scraped_date", log[k].source) : j < k
                  /\ log[k].source = "resume" =>
                        \E j \in StepsAt("get_content_hash", "resume") : j < k

(* a run that went through every stage and has ended *)
C25_Witness ==
    /\ pc = "done"
    /\ StepsAt("scrape", "medium") # {}
    /\ \A st \in {"connect", "chunk", "embed", "insert_documents", "close"} :
          StepsAt(st, "") # {}

(* the scrape of the resume was called in a run, after its two lookups *)
C25_WitnessResume ==
    /\ StepsAt("scrape", "resume") # {}
    /\ StepsAt("get_content_hash", "resume") # {}

-----------------------------------------------------------------------------
(* run() from the Chunk stage on, in a store that earlier runs have filled  *)

(* what earlier runs left in the store: a chunk of a post, or that and a    *)
(* chunk of the resume                                                      *)
StoredBefore ==
    {<<DbDoc("medium", 1)>>,
     <<DbDoc("medium", 1), DbDoc("resume", 1) @@ [content_hash |-> "h1"]>>}

InitRerun ==
    /\ text = <<>>
    /\ chunk_size \in 1..MaxChunkSize
    /\ overlap \in 0..(chunk_size - 1)
    /\ words = <<>>
    /\ chunks = <<>>
    /\ starts = <<>>
    /\ i = 0
    /\ cpc = "idle"
    /\ client = "open"
    /\ collection = CreateCollection(EmbeddingDim)
    /\ \E stored \in StoredBefore :
          /\ points = CreatePoints(stored, 0)
          /\ next_id = Len(stored)
    /\ db_ret = Call("connect", "", None, "none", 0, 0)
    /\ ScrapeIdle
    /\ HeapIdle /\ ApiIdle
    /\ pc = "scrape"
    /\ run_no = 1
    /\ sources = Sources
    /\ env = {}
    /\ origins = <<>>
    /\ src_idx = Len(SourceOrder) + 1
    /\ last_scraped = None
    /\ stored_hash = None
    /\ documents \in ScrapedLists
    /\ chunked_docs = <<>>
    /\ exc = "none"
    /\ outcome = "pending"
    /\ hist = Logged([NoHist EXCEPT !.connects = 1, !.points_at_start = points,
                                    !.collection_at_start = collection],
                     "connect", "")

SpecRerun == InitRerun /\ [][NextStages]_vars

(* C26: when the embedding backend has failed in a run, the store holds     *)
(* exactly the points it held when the run began (nothing of the batch was  *)
(* inserted, nothing stored was changed), insert_documents was not called,  *)
(* and the caller gets the error, and only once the connection is closed.   *)
C26_EmbedFailure ==
    /\ (exc = "EmbeddingBackendError" /\ pc \in {"exit", "exited", "done"}) =>
          /\ points = hist.points_at_start
          /\ "insert_documents" \notin hist.stages
    /\ (exc = "EmbeddingBackendError" /\ pc = "done") =>
          outcome = "EmbeddingBackendError"
    /\ outcome = "EmbeddingBackendError" =>
          /\ client = "closed"
          /\ hist.closes = 1

(* the backend failed while the chunks of the run were being embedded, in a *)
(* store that held points, and the run has ended                            *)
C26_Witness ==
    /\ pc = "done"
    /\ outcome = "EmbeddingBackendError"
    /\ StepsAt("embed", "") # {}
    /\ Len(chunked_docs) >= 2
    /\ hist.points_at_start # <<>>

-----------------------------------------------------------------------------
(* Vector store claims, continued *)

-----------------------------------------------------------------------------
(* Chunker claims, continued *)

(* C28: for every text and every chunk_size > overlap >= 0, chunk_text      *)
(* returns; each loop iteration that goes on to another one has moved the   *)
(* start index forward, and the iteration whose window reaches the end of   *)
(* the words is the last.                                                   *)
C28_Terminates ==
    /\ <>(cpc = "done")
    /\ [][(cpc = "loop" /\ cpc' = "loop") => i' > i]_vars
    /\ [][(cpc = "loop" /\ i + chunk_size >= Len(words)) => cpc' = "done"]_vars

(* a call that went three times or more through the loop has returned, its *)
(* last window starting at the final start index                            *)
C28_Witness ==
    /\ cpc = "done"
    /\ Len(starts) >= 3
    /\ i = starts[Len(starts)]
    /\ i + chunk_size >= Len(words)

-----------------------------------------------------------------------------
(* Vector store claims, continued *)

(* the values get_last_scraped_date(source) would return to a connected     *)
(* client for the store as it is                                            *)
Watermarks(source) ==
    IF ~CollectionExists \/ CollectionIsEmpty THEN {None}
    ELSE QueryLatestDocument(source)

(* C29: whatever store operation is taken, by a run or by a query, a source *)
(* that has a watermark keeps one, and the new one is not earlier.          *)
C29_WatermarkMonotone ==
    [][\A s \in Sources :
          \A v \in Watermarks(s) : \A w \in Watermarks(s)' :
              v # None => (w # None /\ w.ts >= v.ts)]_vars

(* a source has a watermark, and a point stored later for it carries an     *)
(* earlier date                                                             *)
C29_Witness ==
    \E s \in Sources : \E j, k \in PointsOf(s) :
        /\ j < k
        /\ points[k].payload.published_date.digits < points[j].payload.published_date.digits
        /\ None \notin Watermarks(s)

-----------------------------------------------------------------------------
(* Query entry point claims, continued *)

(* C30: a /query request whose (question, top_k) has an entry in the cache  *)
(* is answered with the stored answer and sources, without a call of        *)
(* query_engine.search, of the Vector Store or of the answering backend;    *)
(* whatever was inserted since the entry was stored is not in the response. *)
C30_CachedAnswer ==
    [][(spc = "query" /\ spc' = "done" /\ CacheIndex(Key(request)) # {}) =>
          /\ http' = "200"
          /\ body' = cache[CHOOSE k \in CacheIndex(Key(request)) : TRUE].value
          /\ api_hist'.searches = api_hist.searches
          /\ api_hist'.generations = api_hist.generations
          /\ db_ret' = db_ret]_vars

(* a repeated request was answered from the cache with fewer sources than   *)
(* the store, grown by an ingestion run in between, would have given        *)
C30_Witness ==
    /\ spc = "done"
    /\ api_hist.endpoint = "/query"
    /\ api_hist.hits = 1
    /\ http = "200"
    /\ Cardinality(body.sources.ids) < Min(request.top_k, api_hist.points_at_query)

====
